---------------------------- MODULE Spec2Model ----------------------------
(***************************************************************************)
(* A model of ruby-flasher: the session/transport layer of src/flasher.rs  *)
(* (connect and authentication classification, the manually driven SCP     *)
(* transfer, remote command execution) and the front end's event loop of   *)
(* src/main.rs.                                                            *)
(*                                                                         *)
(* Four specifications share the module:                                   *)
(*   SpecRun       one call of run_command, one step per await;            *)
(*   SpecTransfer  one call of transfer_file, one step per await;          *)
(*   SpecOp        one call of detect_soc / flash / reset_device /         *)
(*                 execute_command, with connect and is_auth_error;        *)
(*   SpecUI        RubyFlasher::run, its message queue and spawned tasks.  *)
(*                                                                         *)
(* Text is modelled as it is held by the program: raw channel bytes are    *)
(* sequences of integers 0..255, a decoded String is the sequence of its   *)
(* Unicode scalar values, error messages are strings.                      *)
(***************************************************************************)
EXTENDS Integers, Sequences, FiniteSets, TLC

(***************************************************************************)
(* Bounds of the model.                                                    *)
(***************************************************************************)
\* Channel messages the remote end delivers to one run_command call.
MaxMsgs == 3
\* Whole 64 KiB chunks in the largest file transferred.
MaxChunks == 2
\* Causes in the cause chain of a connection error.
MaxChain == 2
\* Data messages left on the channel of a transfer when its EOF is sent.
MaxDrained == 1
\* Clicks, menu picks and manual-mode key presses of the user's in one run
\* of the front end.
MaxEvents == 4

(***************************************************************************)
(* Program constants.                                                      *)
(***************************************************************************)
CHUNK_SIZE == 1024 * 64

(***************************************************************************)
(* Sequence helpers.                                                       *)
(***************************************************************************)
Prefix(s, n) == SubSeq(s, 1, n)

Suffix(s, n) == SubSeq(s, n + 1, Len(s))

\* str::contains: pat occurs as a contiguous subsequence of s.
Contains(s, pat) ==
  \E i \in 1..(Len(s) - Len(pat) + 1) : SubSeq(s, i, i + Len(pat) - 1) = pat

(***************************************************************************)
(* UTF-8, as core::str::from_utf8 validates it.  Utf8Step(s, i) looks at   *)
(* the sequence that starts at index i (1-based): ok with its width and    *)
(* scalar value, or an error with the length of the invalid part, or       *)
(* incomplete when the bytes end inside a still well-formed sequence.      *)
(***************************************************************************)
IsCont(b) == b >= 128 /\ b <= 191

Utf8Width(b) ==
  IF b < 128 THEN 1
  ELSE IF b >= 194 /\ b <= 223 THEN 2
  ELSE IF b >= 224 /\ b <= 239 THEN 3
  ELSE IF b >= 240 /\ b <= 244 THEN 4
  ELSE 0

\* The range the second byte of a 3- or 4-byte sequence must lie in.
SecondOk(first, b) ==
  IF first = 224 THEN b >= 160 /\ b <= 191
  ELSE IF first = 237 THEN b >= 128 /\ b <= 159
  ELSE IF first = 240 THEN b >= 144 /\ b <= 191
  ELSE IF first = 244 THEN b >= 128 /\ b <= 143
  ELSE IsCont(b)

Utf8Step(s, i) ==
  LET n == Len(s)
      b == s[i]
      w == Utf8Width(b)
      Bad(k) == [ok |-> FALSE, incomplete |-> FALSE, adv |-> k, cp |-> 65533]
      Cut == [ok |-> FALSE, incomplete |-> TRUE, adv |-> n - i + 1, cp |-> 65533]
      Good(c) == [ok |-> TRUE, incomplete |-> FALSE, adv |-> w, cp |-> c]
  IN  IF w = 0 THEN Bad(1)
      ELSE IF w = 1 THEN Good(b)
      ELSE IF i + 1 > n THEN Cut
      ELSE IF w = 2 THEN
        IF IsCont(s[i + 1]) THEN Good((b - 192) * 64 + (s[i + 1] - 128))
        ELSE Bad(1)
      ELSE IF ~SecondOk(b, s[i + 1]) THEN Bad(1)
      ELSE IF i + 2 > n THEN Cut
      ELSE IF ~IsCont(s[i + 2]) THEN Bad(2)
      ELSE IF w = 3 THEN
        Good((b - 224) * 4096 + (s[i + 1] - 128) * 64 + (s[i + 2] - 128))
      ELSE IF i + 3 > n THEN Cut
      ELSE IF ~IsCont(s[i + 3]) THEN Bad(3)
      ELSE Good((b - 240) * 262144 + (s[i + 1] - 128) * 4096
                + (s[i + 2] - 128) * 64 + (s[i + 3] - 128))

\* Utf8Error::valid_up_to: the number of leading bytes that are valid UTF-8
\* (Len(s) when all of s is valid).
RECURSIVE ValidFrom(_, _)
ValidFrom(s, i) ==
  IF i > Len(s) THEN Len(s)
  ELSE LET st == Utf8Step(s, i)
       IN  IF st.ok THEN ValidFrom(s, i + st.adv) ELSE i - 1

valid_up_to(s) == ValidFrom(s, 1)

\* The scalar values of s from index i on, every maximal invalid part
\* decoding to U+FFFD (65533).
RECURSIVE DecodeFrom(_, _)
DecodeFrom(s, i) ==
  IF i > Len(s) THEN <<>>
  ELSE LET st == Utf8Step(s, i)
       IN  <<st.cp>> \o DecodeFrom(s, i + st.adv)

\* String::from_utf8: Ok(text) when all of s is valid, else the Utf8Error
\* with its valid_up_to.
from_utf8(s) ==
  LET v == valid_up_to(s)
  IN  IF v = Len(s)
      THEN [ok |-> TRUE, text |-> DecodeFrom(s, 1), valid_up_to |-> v]
      ELSE [ok |-> FALSE, text |-> <<>>, valid_up_to |-> v]

\* String::from_utf8_lossy: never fails, invalid parts become U+FFFD.
from_utf8_lossy(s) == DecodeFrom(s, 1)

(***************************************************************************)
(* str::split('\n') and str::trim on decoded text.                         *)
(***************************************************************************)
NL == 10

IsWhite(c) == c \in {9, 10, 11, 12, 13, 32, 133, 160}

RECURSIVE Split(_)
Split(t) ==
  IF \A i \in 1..Len(t) : t[i] # NL THEN <<t>>
  ELSE LET k == CHOOSE i \in 1..Len(t) :
                  t[i] = NL /\ \A j \in 1..(i - 1) : t[j] # NL
       IN  <<Prefix(t, k - 1)>> \o Split(Suffix(t, k))

RECURSIVE TrimStart(_)
TrimStart(t) ==
  IF t # <<>> /\ IsWhite(Head(t)) THEN TrimStart(Tail(t)) ELSE t

RECURSIVE TrimEnd(_)
TrimEnd(t) ==
  IF t # <<>> /\ IsWhite(t[Len(t)]) THEN TrimEnd(Prefix(t, Len(t) - 1)) ELSE t

Trim(t) == TrimEnd(TrimStart(t))

(***************************************************************************)
(* State.                                                                  *)
(***************************************************************************)
VARIABLES
  \* run_command: position, exit status, output text, undecoded bytes, the
  \* lines given to status_update, the operations attempted on the channel,
  \* the value returned, and the channel messages received so far.
  rpc, result, res, buf, rsink, rchan, rret, msgs,
  \* transfer_file: position, the file's size, the progress counters, the
  \* start of the next chunk, the writes made to the channel, the lines given
  \* to status_update, the channel operations attempted, the value returned.
  tpc, file_size, total_size, total_sent, chunk_start, written, tsink, tchan,
  tret,
  \* What each wait_for_acknowledgment of the transfer received, in order,
  \* the Data messages the drain loop of the transfer dropped, in order, and
  \* the waits of the drain loop that timed out in a row (0 when the latest
  \* wait received a message; a longer run counts as 1 when odd, 2 when even).
  acks, drained, silence,
  \* One operation of flasher.rs: its inputs, position, the passwords it
  \* tried, the session, the output of the SOC query, the remote steps
  \* issued, the value returned, the channels the session opened (each
  \* closed or left open), and the log records of smart_connect and
  \* try_connect.
  call, opc, attempts, session, soc_out, steps, oret, channels, log,
  \* RubyFlasher: the State fields (password, soc, whether port parses,
  \* whether ip is empty), the widgets' activation, the message queue, the
  \* spawned tasks, whether run() is still looping, and the line last
  \* appended to the display.
  password, soc, port_ok, ip_empty, btn_detect, btn_flash, menu_btn,
  manual_visible, queue, tasks, running, display,
  \* The user's clicks, picks and key presses so far, and the task that
  \* ended last with the result of its operation.
  events, finished

runVars == <<rpc, result, res, buf, rsink, rchan, rret, msgs>>

xferVars == <<tpc, file_size, total_size, total_sent, chunk_start, written,
              tsink, tchan, tret, acks, drained, silence>>

opVars == <<call, opc, attempts, session, soc_out, steps, oret, channels, log>>

uiVars == <<password, soc, port_ok, ip_empty, btn_detect, btn_flash, menu_btn,
            manual_visible, queue, tasks, running, display, events, finished>>

vars == <<runVars, xferVars, opVars, uiVars>>

(***************************************************************************)
(* Awaited network steps.  A step under tokio::time::timeout ends ok, with *)
(* an error of the transport, or "elapsed" when the remote end stays       *)
(* silent.  A step awaited without a timeout ends ok or with an error, or  *)
(* "never": the remote end stays silent and the await does not return.     *)
(***************************************************************************)
WithTimeout == {"ok", "err", "elapsed"}

WithoutTimeout == {"ok", "err", "never"}

\* Option<u32>.
None == [some |-> FALSE, v |-> 0]

Some(x) == [some |-> TRUE, v |-> x]

\* A Result not yet produced, Ok(text) and Err(why).
Pending == [kind |-> "Pending", why |-> "", text |-> <<>>]

Ok(t) == [kind |-> "Ok", why |-> "", text |-> t]

Err(w) == [kind |-> "Err", why |-> w, text |-> <<>>]

(***************************************************************************)
(* Channel messages (russh::ChannelMsg) the remote end may deliver.        *)
(***************************************************************************)
\* "Unconditional reboot"
Marker == <<85, 110, 99, 111, 110, 100, 105, 116, 105, 111, 110, 97, 108, 32,
            114, 101, 98, 111, 111, 116>>

Payloads ==
  { <<97, 32, 10>>,                   \* "a \n"
    <<32>> \o Marker \o <<10, 122>>,  \* " Unconditional reboot\nz"
    Prefix(Marker, 7),                \* "Uncondi"
    Suffix(Marker, 7),                \* "tional reboot"
    <<195>>,                          \* first byte of U+00E9
    <<169>> }                         \* its second byte; invalid on its own

DataMsg(d) == [kind |-> "Data", data |-> d, ext |-> 0, exit_status |-> 0]

ExtMsg(d, e) == [kind |-> "ExtendedData", data |-> d, ext |-> e, exit_status |-> 0]

ExitMsg(x) == [kind |-> "ExitStatus", data |-> <<>>, ext |-> 0, exit_status |-> x]

OtherMsg(k) == [kind |-> k, data |-> <<>>, ext |-> 0, exit_status |-> 0]

RunMsgs ==
  {DataMsg(d) : d \in Payloads}
    \cup {ExtMsg(<<101, 10>>, 1), ExtMsg(<<101>>, 2)}   \* "e\n" on stderr
    \cup {ExitMsg(0), ExitMsg(1)}
    \cup {OtherMsg("Eof")}

(***************************************************************************)
(* run_command.                                                            *)
(***************************************************************************)
\* A decoding that does not wait for the rest of a split character.
DecodeBufferLossy(b) == [valid_str |-> from_utf8_lossy(b), remaining |-> <<>>]

\* Lines 291-308: the decodable prefix of the buffer and the remainder.
DecodeBuffer(b) ==
  LET r == from_utf8(b)
  IN  IF r.ok THEN [valid_str |-> r.text, remaining |-> <<>>]
      ELSE IF r.valid_up_to > 0
      THEN [valid_str |-> from_utf8(Prefix(b, r.valid_up_to)).text,
            remaining |-> Suffix(b, r.valid_up_to)]
      ELSE [valid_str |-> <<>>, remaining |-> b]

\* A marker test that asks for the marker alone on its line.
IsMarkerAlone(line) == line = Marker

\* Line 315: the line ends the command early.
IsRebootLine(line) == Contains(line, Marker)

\* Lines 311-320: walk the lines of newly decoded text; every line whose
\* trimmed form is not empty goes to status_update, and the walk returns at
\* the first such line that holds the marker.
RECURSIVE WalkLines(_)
WalkLines(lines) ==
  IF lines = <<>> THEN [out |-> <<>>, reboot |-> FALSE]
  ELSE LET line == Head(lines)
           trimmed == Trim(line)
       IN  IF trimmed = <<>> THEN WalkLines(Tail(lines))
           ELSE IF IsRebootLine(line)
           THEN [out |-> <<[kind |-> "line", text |-> trimmed]>>, reboot |-> TRUE]
           ELSE LET rest == WalkLines(Tail(lines))
                IN  [out |-> <<[kind |-> "line", text |-> trimmed]>> \o rest.out,
                     reboot |-> rest.reboot]

\* Lines 352-357: the lines of the text left at the end of the stream; no
\* marker check here.
RECURSIVE FinalLines(_)
FinalLines(lines) ==
  IF lines = <<>> THEN <<>>
  ELSE LET trimmed == Trim(Head(lines))
       IN  (IF trimmed = <<>> THEN <<>>
            ELSE <<[kind |-> "line", text |-> trimmed]>>)
           \o FinalLines(Tail(lines))

\* Lines 329-332: every line of a stderr message goes to status_update with
\* the prefix "stderr: ".
RECURSIVE StderrLines(_)
StderrLines(lines) ==
  IF lines = <<>> THEN <<>>
  ELSE <<[kind |-> "stderr", text |-> Head(lines)]>> \o StderrLines(Tail(lines))

\* A resolution that ignores the exit status.
ResolveAlwaysOk(r, text) == Ok(text)

\* Lines 383-388: the value returned after a normal teardown.
Resolve(r, text) ==
  IF r.some /\ r.v # 0 THEN Err("exit status") ELSE Ok(text)

RunInit ==
  /\ rpc = "open"
  /\ result = None
  /\ res = <<>>
  /\ buf = <<>>
  /\ rsink = <<[kind |-> "command", text |-> <<>>]>>
  /\ rchan = <<>>
  /\ rret = Pending
  /\ msgs = <<>>

RunReturn(v) == rpc' = "returned" /\ rret' = v

RunHang == rpc' = "hung" /\ rret' = rret

\* A step of run_command leaves the rest of the state alone.
RunFrame == UNCHANGED <<xferVars, opVars, uiVars>>

\* Line 283: session.channel_open_session().await?
RunOpen ==
  /\ rpc = "open"
  /\ rchan' = Append(rchan, "open")
  /\ \E o \in WithoutTimeout :
       CASE o = "ok" -> rpc' = "exec" /\ rret' = rret
         [] o = "err" -> RunReturn(Err("channel open"))
         [] OTHER -> RunHang
  /\ UNCHANGED <<result, res, buf, rsink, msgs>>
  /\ RunFrame

\* Line 284: channel.exec(true, command).await?
RunExec ==
  /\ rpc = "exec"
  /\ rchan' = Append(rchan, "exec")
  /\ \E o \in WithoutTimeout :
       CASE o = "ok" -> rpc' = "recv" /\ rret' = rret
         [] o = "err" -> RunReturn(Err("exec"))
         [] OTHER -> RunHang
  /\ UNCHANGED <<result, res, buf, rsink, msgs>>
  /\ RunFrame

\* Lines 286-325: a Data message.
RunData ==
  /\ rpc = "recv"
  /\ Len(msgs) < MaxMsgs
  /\ \E d \in Payloads :
       LET dec == DecodeBuffer(buf \o d)
           walk == WalkLines(Split(dec.valid_str))
       IN  /\ msgs' = Append(msgs, DataMsg(d))
           /\ res' = res \o dec.valid_str
           /\ rsink' = rsink \o walk.out
           /\ IF walk.reboot
              THEN rpc' = "reboot close" /\ buf' = buf \o d
              ELSE rpc' = "recv" /\ buf' = dec.remaining
  /\ UNCHANGED <<result, rchan, rret>>
  /\ RunFrame

\* Lines 326-334: an ExtendedData message.
RunExtendedData ==
  /\ rpc = "recv"
  /\ Len(msgs) < MaxMsgs
  /\ \E m \in {x \in RunMsgs : x.kind = "ExtendedData"} :
       /\ msgs' = Append(msgs, m)
       /\ rsink' = IF m.ext = 1
                   THEN rsink \o StderrLines(Split(from_utf8_lossy(m.data)))
                   ELSE rsink
  /\ UNCHANGED <<rpc, result, res, buf, rchan, rret>>
  /\ RunFrame

\* A loop that takes the exit status for the end of the stream.
RunExitStatusEnds ==
  /\ rpc = "recv"
  /\ Len(msgs) < MaxMsgs
  /\ \E m \in {x \in RunMsgs : x.kind = "ExitStatus"} :
       /\ msgs' = Append(msgs, m)
       /\ result' = Some(m.exit_status)
  /\ rpc' = "eof"
  /\ UNCHANGED <<res, buf, rsink, rchan, rret>>
  /\ RunFrame

\* Line 338: an ExitStatus message is recorded and the loop goes on.
RunExitStatus ==
  /\ rpc = "recv"
  /\ Len(msgs) < MaxMsgs
  /\ \E m \in {x \in RunMsgs : x.kind = "ExitStatus"} :
       /\ msgs' = Append(msgs, m)
       /\ result' = Some(m.exit_status)
  /\ UNCHANGED <<rpc, res, buf, rsink, rchan, rret>>
  /\ RunFrame

\* Line 344: any other message is ignored.
RunOtherMsg ==
  /\ rpc = "recv"
  /\ Len(msgs) < MaxMsgs
  /\ \E m \in {x \in RunMsgs : x.kind \notin {"Data", "ExtendedData", "ExitStatus"}} :
       msgs' = Append(msgs, m)
  /\ UNCHANGED <<rpc, result, res, buf, rsink, rchan, rret>>
  /\ RunFrame

\* Line 286: the receive times out and `?` returns the error.
RunRecvElapsed ==
  /\ rpc = "recv"
  /\ RunReturn(Err("receive timeout"))
  /\ UNCHANGED <<result, res, buf, rsink, rchan, msgs>>
  /\ RunFrame

\* Lines 286 and 348-358: the channel reports no further message; what is
\* left in the buffer is decoded leniently.
RunRecvNone ==
  /\ rpc = "recv"
  /\ rpc' = "eof"
  /\ IF buf # <<>>
     THEN LET msg == from_utf8_lossy(buf)
          IN  res' = res \o msg /\ rsink' = rsink \o FinalLines(Split(msg))
     ELSE res' = res /\ rsink' = rsink
  /\ UNCHANGED <<result, buf, rchan, rret, msgs>>
  /\ RunFrame

\* Lines 316-317: the marker was seen; the close is best effort and the
\* output so far is returned.
RunRebootClose ==
  /\ rpc = "reboot close"
  /\ rchan' = Append(rchan, "close")
  /\ \E o \in WithTimeout : RunReturn(Ok(res))
  /\ UNCHANGED <<result, res, buf, rsink, msgs>>
  /\ RunFrame

\* Line 361: timeout(TIMEOUT_TINY, channel.eof()).await??
RunEof ==
  /\ rpc = "eof"
  /\ rchan' = Append(rchan, "eof")
  /\ \E o \in WithTimeout :
       CASE o = "ok" -> rpc' = "drain" /\ rret' = rret
         [] o = "err" -> RunReturn(Err("eof"))
         [] OTHER -> RunReturn(Err("eof timeout"))
  /\ UNCHANGED <<result, res, buf, rsink, msgs>>
  /\ RunFrame

\* Lines 365-374: a leftover message, or a timed out receive, is dropped and
\* the loop goes on.
RunDrainMore ==
  /\ rpc = "drain"
  /\ rchan' = IF rchan[Len(rchan)] = "drain" THEN rchan ELSE Append(rchan, "drain")
  /\ UNCHANGED <<rpc, result, res, buf, rsink, rret, msgs>>
  /\ RunFrame

\* Lines 367-370: the channel reports no more messages and the loop ends.
RunDrainNone ==
  /\ rpc = "drain"
  /\ rpc' = "close"
  /\ rchan' = IF rchan[Len(rchan)] = "drain" THEN rchan ELSE Append(rchan, "drain")
  /\ UNCHANGED <<result, res, buf, rsink, rret, msgs>>
  /\ RunFrame

\* A close that resolves the result and gives no "done" line.
RunCloseSilent ==
  /\ rpc = "close"
  /\ rchan' = Append(rchan, "close")
  /\ \E o \in WithTimeout :
       CASE o = "ok" -> RunReturn(Resolve(result, res))
         [] o = "err" -> RunReturn(Err("close"))
         [] OTHER -> RunReturn(Err("close timeout"))
  /\ UNCHANGED <<result, res, buf, rsink, msgs>>
  /\ RunFrame

\* Lines 377-388: close, the "done" line and the result.
RunClose ==
  /\ rpc = "close"
  /\ rchan' = Append(rchan, "close")
  /\ \E o \in WithTimeout :
       CASE o = "ok" -> /\ rsink' = Append(rsink, [kind |-> "done", text |-> <<>>])
                        /\ RunReturn(Resolve(result, res))
         [] o = "err" -> rsink' = rsink /\ RunReturn(Err("close"))
         [] OTHER -> rsink' = rsink /\ RunReturn(Err("close timeout"))
  /\ UNCHANGED <<result, res, buf, msgs>>
  /\ RunFrame

RunNext ==
  \/ RunOpen
  \/ RunExec
  \/ RunData
  \/ RunExtendedData
  \/ RunExitStatus
  \/ RunOtherMsg
  \/ RunRecvElapsed
  \/ RunRecvNone
  \/ RunRebootClose
  \/ RunEof
  \/ RunDrainMore
  \/ RunDrainNone
  \/ RunClose

(***************************************************************************)
(* wait_for_acknowledgment.                                                *)
(***************************************************************************)
\* What one bounded channel.wait() of wait_for_acknowledgment can yield: a
\* message, the end of the channel, or the timeout.
AckMsgs ==
  {DataMsg(d) : d \in {<<0>>, <<1>>, <<1, 101>>, <<2>>, <<7>>, <<>>}}
    \cup {OtherMsg("Success"), OtherMsg("WindowAdjusted"), ExitMsg(1)}

AckEvents == AckMsgs \cup {OtherMsg("None"), OtherMsg("Elapsed")}

\* A wait that takes whatever arrives for a success.
AckAlwaysOk(ev) == Ok(<<>>)

\* Lines 166-193.
wait_for_acknowledgment(ev) ==
  IF ev.kind = "Data" THEN
    IF Len(ev.data) >= 1 THEN
      CASE ev.data[1] = 0 -> Ok(<<>>)
        [] ev.data[1] = 1 ->
             IF Len(ev.data) > 1
             THEN [kind |-> "Err", why |-> "SCP error",
                   text |-> from_utf8_lossy(Suffix(ev.data, 1))]
             ELSE Err("SCP error: Unknown SCP error")
        [] ev.data[1] = 2 -> Err("SCP fatal error")
        [] OTHER -> Err("Unknown SCP response")
    ELSE Err("Empty SCP response")
  ELSE IF ev.kind = "Success" THEN Ok(<<>>)
  ELSE IF ev.kind = "None" THEN Err("Channel closed unexpectedly")
  ELSE IF ev.kind = "Elapsed" THEN Err("Timeout waiting for SCP acknowledgment")
  ELSE Ok(<<>>)

(***************************************************************************)
(* transfer_file.                                                          *)
(***************************************************************************)
\* The sizes of the local files transferred: empty, small, and around the
\* chunk boundaries.
FileSizes ==
  {0, 1, 130} \cup {k * CHUNK_SIZE + d : k \in 1..MaxChunks, d \in {-1, 0, 1}}

\* The decimal digits of n, as format!("{}") writes them.
RECURSIVE Decimal(_)
Decimal(n) ==
  IF n < 10 THEN <<48 + n>> ELSE Decimal(n \div 10) \o <<48 + (n % 10)>>

\* A header line without its newline.
HeaderNoNewline(n) ==
  <<67, 48, 54, 52, 52, 32>> \o Decimal(n)
    \o <<32, 102, 105, 108, 101, 110, 97, 109, 101>>

\* Line 202: format!("C0644 {} filename\n", file_size), as bytes.
HeaderLine(n) ==
  <<67, 48, 54, 52, 52, 32>> \o Decimal(n)
    \o <<32, 102, 105, 108, 101, 110, 97, 109, 101, 10>>

\* A total that forgets the trailing null byte.
TotalSizeNoNull(n) == n + Len(HeaderLine(n))

\* Line 203.
TotalSize(n) == n + Len(HeaderLine(n)) + 1

\* A chunk end that is not clamped to the length of the file.
ChunkEndUnclamped(start, len) == start + CHUNK_SIZE

\* Line 230.
ChunkEnd(start, len) ==
  IF start + CHUNK_SIZE < len THEN start + CHUNK_SIZE ELSE len

\* Line 229: step_by(CHUNK_SIZE).
NextChunkStart(start) == start + CHUNK_SIZE

\* One write to the channel: literal bytes, or the slice
\* file_contents[from..to] of the file.
Literal(bytes) == [lit |-> bytes, from |-> 0, to |-> 0]

Slice(a, b) == [lit |-> <<>>, from |-> a, to |-> b]

WriteLen(w) == Len(w.lit) + (w.to - w.from)

\* Lines 217-221, 236-240, 246-250: one progress report.  The percentage
\* is kept in tenths, as "{:.1}" prints it, and capped at 100.0.
Percent(sent, total) ==
  LET tenths == (2000 * sent + total) \div (2 * total)
  IN  IF tenths > 1000 THEN 1000 ELSE tenths

Progress(sent, total) ==
  [kind |-> "progress", sent |-> sent, total |-> total,
   percent |-> Percent(sent, total)]

TransferInit ==
  /\ tpc = "open file"
  /\ file_size = 0
  /\ total_size = 0
  /\ total_sent = 0
  /\ chunk_start = 0
  /\ written = <<>>
  /\ tsink = <<>>
  /\ tchan = <<>>
  /\ tret = Pending
  /\ acks = <<>>
  /\ drained = <<>>
  /\ silence = 0

\* A step of transfer_file leaves the rest of the state alone.
TransferFrame == UNCHANGED <<runVars, opVars, uiVars>>

\* A transfer that notes a result and tries the same step again.
TransferTryAgain(v) == tpc' = tpc /\ tret' = v

TransferReturn(v) == tpc' = "returned" /\ tret' = v

TransferHang == tpc' = "hung" /\ tret' = tret

\* Lines 198-203: the file is read into memory (or cannot be).
TransferReadFile ==
  /\ tpc = "open file"
  /\ \/ \E n \in FileSizes :
          /\ file_size' = n
          /\ total_size' = TotalSize(n)
          /\ tpc' = "open channel"
          /\ tret' = tret
     \/ /\ TransferReturn(Err("file"))
        /\ UNCHANGED <<file_size, total_size>>
  /\ UNCHANGED <<total_sent, chunk_start, written, tsink, tchan>>
  /\ UNCHANGED <<acks, drained, silence>>
  /\ TransferFrame

\* Line 206: session.channel_open_session().await?
TransferOpen ==
  /\ tpc = "open channel"
  /\ tchan' = Append(tchan, "open")
  /\ \E o \in WithoutTimeout :
       CASE o = "ok" -> tpc' = "exec" /\ tret' = tret
         [] o = "err" -> TransferReturn(Err("channel open"))
         [] OTHER -> TransferHang
  /\ UNCHANGED <<file_size, total_size, total_sent, chunk_start, written, tsink>>
  /\ UNCHANGED <<acks, drained, silence>>
  /\ TransferFrame

\* Line 207: channel.exec(true, "scp -t <dst>").await?
TransferExec ==
  /\ tpc = "exec"
  /\ tchan' = Append(tchan, "exec")
  /\ \E o \in WithoutTimeout :
       CASE o = "ok" -> tpc' = "ack 1" /\ tret' = tret
         [] o = "err" -> TransferReturn(Err("exec"))
         [] OTHER -> TransferHang
  /\ UNCHANGED <<file_size, total_size, total_sent, chunk_start, written, tsink>>
  /\ UNCHANGED <<acks, drained, silence>>
  /\ TransferFrame

\* Where the transfer goes on after the header was acknowledged: line 229
\* enters the loop only for a file that is not empty.
AfterHeader(len) == IF 0 < len THEN "send chunk" ELSE "send null"

\* Lines 210, 224, 253: wait_for_acknowledgment(&mut channel).await?
TransferAck ==
  /\ tpc \in {"ack 1", "ack 2", "ack 3"}
  /\ \E ev \in AckEvents :
       LET r == wait_for_acknowledgment(ev)
       IN  /\ acks' = Append(acks, ev)
           /\ IF r.kind = "Ok"
              THEN /\ tpc' = CASE tpc = "ack 1" -> "send header"
                               [] tpc = "ack 2" -> AfterHeader(file_size)
                               [] OTHER -> "eof"
                   /\ tret' = tret
              ELSE TransferReturn(r)
  /\ UNCHANGED <<file_size, total_size, total_sent, chunk_start, written, tsink,
                 tchan, drained, silence>>
  /\ TransferFrame

\* Lines 215-221: the header line is sent, with no timeout, and reported.
TransferSendHeader ==
  /\ tpc = "send header"
  /\ \E o \in WithoutTimeout :
       CASE o = "ok" ->
              LET cmd == HeaderLine(file_size)
              IN  /\ written' = Append(written, Literal(cmd))
                  /\ total_sent' = total_sent + Len(cmd)
                  /\ tsink' = Append(tsink, Progress(total_sent + Len(cmd), total_size))
                  /\ tpc' = "ack 2"
                  /\ tret' = tret
         [] o = "err" -> /\ TransferReturn(Err("send"))
                         /\ UNCHANGED <<written, total_sent, tsink>>
         [] OTHER -> TransferHang /\ UNCHANGED <<written, total_sent, tsink>>
  /\ UNCHANGED <<file_size, total_size, chunk_start, tchan>>
  /\ UNCHANGED <<acks, drained, silence>>
  /\ TransferFrame

\* Lines 229-241: one chunk is sent under TIMEOUT_MAIN and reported.
TransferSendChunk ==
  /\ tpc = "send chunk"
  /\ \E o \in WithTimeout :
       CASE o = "ok" ->
              LET chunk_end == ChunkEnd(chunk_start, file_size)
                  sent == total_sent + (chunk_end - chunk_start)
              IN  /\ written' = Append(written, Slice(chunk_start, chunk_end))
                  /\ total_sent' = sent
                  /\ tsink' = Append(tsink, Progress(sent, total_size))
                  /\ chunk_start' = NextChunkStart(chunk_start)
                  /\ tpc' = IF NextChunkStart(chunk_start) < file_size
                            THEN "send chunk" ELSE "send null"
                  /\ tret' = tret
         [] o = "err" -> /\ TransferReturn(Err("send"))
                         /\ UNCHANGED <<written, total_sent, tsink, chunk_start>>
         [] OTHER -> /\ TransferReturn(Err("send timeout"))
                     /\ UNCHANGED <<written, total_sent, tsink, chunk_start>>
  /\ UNCHANGED <<file_size, total_size, tchan>>
  /\ UNCHANGED <<acks, drained, silence>>
  /\ TransferFrame

\* Lines 244-250: the null byte is sent, with no timeout, and reported.
TransferSendNull ==
  /\ tpc = "send null"
  /\ \E o \in WithoutTimeout :
       CASE o = "ok" ->
              /\ written' = Append(written, Literal(<<0>>))
              /\ total_sent' = total_sent + 1
              /\ tsink' = Append(tsink, Progress(total_sent + 1, total_size))
              /\ tpc' = "ack 3"
              /\ tret' = tret
         [] o = "err" -> /\ TransferReturn(Err("send"))
                         /\ UNCHANGED <<written, total_sent, tsink>>
         [] OTHER -> TransferHang /\ UNCHANGED <<written, total_sent, tsink>>
  /\ UNCHANGED <<file_size, total_size, chunk_start, tchan>>
  /\ UNCHANGED <<acks, drained, silence>>
  /\ TransferFrame

\* Line 256: timeout(TIMEOUT_TINY, channel.eof()).await??
TransferEof ==
  /\ tpc = "eof"
  /\ tchan' = Append(tchan, "eof")
  /\ \E o \in WithTimeout :
       CASE o = "ok" -> tpc' = "drain" /\ tret' = tret
         [] o = "err" -> TransferReturn(Err("eof"))
         [] OTHER -> TransferReturn(Err("eof timeout"))
  /\ UNCHANGED <<file_size, total_size, total_sent, chunk_start, written, tsink>>
  /\ UNCHANGED <<acks, drained, silence>>
  /\ TransferFrame

\* A drain that returns the timeout of a receive as an error.
TransferDrainTimeout ==
  /\ tpc = "drain"
  /\ tchan' = IF tchan[Len(tchan)] = "drain" THEN tchan ELSE Append(tchan, "drain")
  /\ TransferReturn(Err("drain timeout"))
  /\ UNCHANGED <<file_size, total_size, total_sent, chunk_start, written, tsink>>
  /\ UNCHANGED <<acks, drained, silence>>
  /\ TransferFrame

\* Lines 260-269: a leftover message, or a timed out receive, is dropped and
\* the loop goes on.
TransferDrainMore ==
  /\ tpc = "drain"
  /\ tchan' = IF tchan[Len(tchan)] = "drain" THEN tchan ELSE Append(tchan, "drain")
  /\ \E ev \in AckMsgs \cup {OtherMsg("Elapsed")} :
       /\ ev.kind = "Data" => Len(drained) < MaxDrained
       /\ drained' = IF ev.kind = "Data" THEN Append(drained, ev) ELSE drained
       /\ silence' = IF ev.kind # "Elapsed" THEN 0
                     ELSE IF silence = 1 THEN 2 ELSE 1
  /\ UNCHANGED <<tpc, file_size, total_size, total_sent, chunk_start, written,
                 tsink, tret, acks>>
  /\ TransferFrame

\* Lines 262-265: the channel reports no more messages and the loop ends.
TransferDrainNone ==
  /\ tpc = "drain"
  /\ tpc' = "close"
  /\ tchan' = IF tchan[Len(tchan)] = "drain" THEN tchan ELSE Append(tchan, "drain")
  /\ UNCHANGED <<file_size, total_size, total_sent, chunk_start, written, tsink,
                 tret>>
  /\ UNCHANGED <<acks, drained, silence>>
  /\ TransferFrame

\* Lines 270-273: close, the final status line and Ok(()).
TransferClose ==
  /\ tpc = "close"
  /\ tchan' = Append(tchan, "close")
  /\ \E o \in WithTimeout :
       CASE o = "ok" ->
              /\ tsink' = Append(tsink, [kind |-> "File sent successfully!",
                                         sent |-> total_sent, total |-> total_size,
                                         percent |-> Percent(total_sent, total_size)])
              /\ TransferReturn(Ok(<<>>))
         [] o = "err" -> tsink' = tsink /\ TransferReturn(Err("close"))
         [] OTHER -> tsink' = tsink /\ TransferReturn(Err("close timeout"))
  /\ UNCHANGED <<file_size, total_size, total_sent, chunk_start, written>>
  /\ UNCHANGED <<acks, drained, silence>>
  /\ TransferFrame

TransferNext ==
  \/ TransferReadFile
  \/ TransferOpen
  \/ TransferExec
  \/ TransferAck
  \/ TransferSendHeader
  \/ TransferSendChunk
  \/ TransferSendNull
  \/ TransferEof
  \/ TransferDrainMore
  \/ TransferDrainNone
  \/ TransferClose

(***************************************************************************)
(* Errors (anyhow::Error): a message and the messages of its causes, the   *)
(* outermost first.                                                        *)
(***************************************************************************)
Error(m, c) == [msg |-> m, chain |-> c]

NoError == Error("", <<>>)

\* Messages a failed connect or authenticate may carry.
ErrMsgs ==
  {"Connection reset by peer", "Disconnected", "Permission Denied",
   "Authentication Failed", "No such user"}

RECURSIVE SeqsUpTo(_, _)
SeqsUpTo(S, n) ==
  IF n = 0 THEN {<<>>}
  ELSE LET shorter == SeqsUpTo(S, n - 1)
       IN  shorter \cup {Append(q, x) : q \in shorter, x \in S}

\* Line 66: the causes connect writes to the log before it stops following
\* the chain of an authentication error.
LoggedCauses == 6

\* The errors of connect and authenticate_password: every message with every
\* short chain of causes, and two errors whose chain is one cause longer
\* than what line 66 follows, the last cause telling of a refusal or not.
ConnErrors ==
  {Error(m, c) : m \in ErrMsgs, c \in SeqsUpTo(ErrMsgs, MaxChain)}
    \cup {Error("Connection reset by peer",
                [i \in 1..(LoggedCauses + 1) |->
                   IF i <= LoggedCauses THEN "Disconnected" ELSE last]) :
            last \in {"Disconnected", "Permission Denied"}}

\* tokio::time::error::Elapsed.
Elapsed == Error("deadline has elapsed", <<>>)

\* Line 52.
InvalidCredentials == Error("Authentication failed: invalid credentials", <<>>)

UpperCase == "ABCDEFGHIJKLMNOPQRSTUVWXYZ"

LowerCase == "abcdefghijklmnopqrstuvwxyz"

\* char::to_lowercase on the letters A-Z; other characters stay.
LowerTable ==
  [c \in {SubSeq(UpperCase, i, i) : i \in 1..Len(UpperCase)} |->
     LET k == CHOOSE i \in 1..Len(UpperCase) : SubSeq(UpperCase, i, i) = c
     IN  SubSeq(LowerCase, k, k)]

LowerChar(c) == IF c \in DOMAIN LowerTable THEN LowerTable[c] ELSE c

RECURSIVE LowerFrom(_, _)
LowerFrom(str, i) ==
  IF i > Len(str) THEN ""
  ELSE LowerChar(SubSeq(str, i, i)) \o LowerFrom(str, i + 1)

\* str::to_lowercase.
to_lowercase(str) == LowerFrom(str, 1)

\* Lines 84-93: the patterns looked for in the error's own message.
MainPatterns ==
  {"authentication", "auth", "password", "login", "permission denied",
   "access denied", "authentication failed", "userauth", "no such user",
   "user unknown"}

\* Lines 102-106: the patterns looked for in the messages of the causes.
ChainPatterns ==
  {"authentication", "auth", "password", "permission denied", "access denied"}

\* Lines 74-114.
is_auth_error(error) ==
  LET error_str == to_lowercase(error.msg)
  IN  IF Contains(error_str, "authentication failed: invalid credentials")
      THEN TRUE
      ELSE IF \E pat \in MainPatterns : Contains(error_str, pat)
      THEN TRUE
      ELSE \E i \in 1..Len(error.chain) :
             \E pat \in ChainPatterns :
               Contains(to_lowercase(error.chain[i]), pat)

\* Lines 123-128: ConnectionError.
AuthFailure(e) == [variant |-> "AuthFailure", err |-> e]

Other(e) == [variant |-> "Other", err |-> e]

\* A classification that finds no authentication failure.
ClassifyAllOther(e) == Other(e)

\* Lines 149-157: try_connect classifies the error of connect.
Classify(e) == IF is_auth_error(e) THEN AuthFailure(e) ELSE Other(e)

(***************************************************************************)
(* The four operations: detect_soc, flash, reset_device, execute_command.  *)
(***************************************************************************)
\* Option<&str>.
NoPassword == [some |-> FALSE, v |-> ""]

Pw(p) == [some |-> TRUE, v |-> p]

\* Line 422.
DefaultPassword == "12345"

Ops == {"detect_soc", "flash", "reset_device", "execute_command"}

NoCall ==
  [op |-> "none", ip_ok |-> TRUE, password |-> NoPassword, file_ok |-> TRUE,
   command |-> ""]

\* The calls made: every operation, with an address that parses or not, with
\* and without a remembered password; flash with a local file that can be
\* read or not; execute_command with one of two command lines.
Calls ==
  {c \in [op : Ops, ip_ok : BOOLEAN, password : {NoPassword, Pw("secret")},
          file_ok : BOOLEAN, command : {"", "uptime", "tail /var/log/auth.log"}] :
     /\ (c.op # "flash" => c.file_ok)
     /\ (c.op = "execute_command" <=> c.command # "")}

\* What run_command may print for the SOC query: "s\n" and " t ".
SocOutputs == {<<115, 10>>, <<32, 116, 32>>}

\* A Result of an operation.
OpPending == [kind |-> "Pending", variant |-> "", err |-> NoError, value |-> <<>>]

OpOk(v) == [kind |-> "Ok", variant |-> "", err |-> NoError, value |-> v]

OpErr(ce) == [kind |-> "Err", variant |-> ce.variant, err |-> ce.err, value |-> <<>>]

RunStep(c) == [what |-> "run_command", cmd |-> c]

\* Lines 434, 445-450, 460, 470: the remote steps of an operation, in order.
Plan(c) ==
  CASE c.op = "detect_soc" -> <<RunStep("fw_printenv -n soc")>>
    [] c.op = "flash" ->
         <<RunStep("fw_printenv -n soc"), RunStep("ruby_stop.sh || true"),
           [what |-> "transfer_file", cmd |-> "scp -t"],
           RunStep("sh -c 'gunzip -c | tar -xvC /tmp'"), RunStep("sysupgrade")>>
    [] c.op = "reset_device" -> <<RunStep("firstboot")>>
    [] c.op = "execute_command" -> <<RunStep(c.command)>>
    [] OTHER -> <<>>

\* A smart_connect that tries the default password whatever is remembered.
ConnectDefaultOnly(pw) == DefaultPassword

\* Lines 409-428: the password smart_connect passes to try_connect.
ConnectPassword(pw) == IF pw.some THEN pw.v ELSE DefaultPassword

OpInit ==
  /\ call \in Calls
  /\ opc = "parse ip"
  /\ attempts = <<>>
  /\ session = "none"
  /\ soc_out = <<>>
  /\ steps = <<>>
  /\ oret = OpPending
  /\ channels = <<>>
  /\ log = <<>>

\* A step of an operation leaves the rest of the state alone.
OpFrame == UNCHANGED <<runVars, xferVars, uiVars>>

OpReturn(v) == opc' = "returned" /\ oret' = v

OpHang == opc' = "hung" /\ oret' = oret

\* An operation that goes on to connect without parsing the address.
OpParseIpUnchecked ==
  /\ opc = "parse ip"
  /\ opc' = "connect"
  /\ UNCHANGED <<call, attempts, session, soc_out, steps, oret, channels, log>>
  /\ OpFrame

\* Lines 432, 440, 456, 466: IpAddr::from_str.  (extract_filename, line
\* 441, cannot fail on a &str.)
OpParseIp ==
  /\ opc = "parse ip"
  /\ IF call.ip_ok
     THEN opc' = "connect" /\ oret' = oret
     ELSE OpReturn(OpErr(Other(Error("invalid IP address syntax", <<>>))))
  /\ UNCHANGED <<call, attempts, session, soc_out, steps, channels, log>>
  /\ OpFrame

\* Lines 412, 420 and 143: the records smart_connect and try_connect log
\* before the connection is made.
ConnectLog(pw) ==
  << IF pw.some
     THEN "Using stored custom password for connection"
     ELSE "No stored password, using default password (12345)",
     "Attempting connection with password length: "
       \o ToString(Len(ConnectPassword(pw))) >>

\* Lines 38-41, reached through smart_connect and try_connect: the
\* connection is made under TIMEOUT_TINY.
OpConnect ==
  /\ opc = "connect"
  /\ attempts' = Append(attempts, ConnectPassword(call.password))
  /\ log' = log \o ConnectLog(call.password)
  /\ \/ opc' = "authenticate" /\ oret' = oret
     \/ \E e \in ConnErrors \cup {Elapsed} : OpReturn(OpErr(Classify(e)))
  /\ UNCHANGED <<call, session, soc_out, steps, channels>>
  /\ OpFrame

\* Lines 44-70: authenticate_password, awaited with no timeout.
OpAuthenticate ==
  /\ opc = "authenticate"
  /\ \/ opc' = "remote" /\ oret' = oret /\ session' = "established"
     \/ OpReturn(OpErr(Classify(InvalidCredentials))) /\ session' = session
     \/ \E e \in ConnErrors : OpReturn(OpErr(Classify(e))) /\ session' = session
     \/ OpHang /\ session' = session
  /\ UNCHANGED <<call, attempts, soc_out, steps, channels, log>>
  /\ OpFrame

NextStep == Plan(call)[Len(steps) + 1]

AfterStep == IF Len(steps) + 1 < Len(Plan(call)) THEN "remote" ELSE "disconnect"

\* An argument that carries the SOC output as it came.
StepArgUntrimmed(st) == IF st.cmd = "sysupgrade" THEN soc_out ELSE <<>>

\* The argument a command is built with: sysupgrade takes the trimmed SOC
\* (line 450).
StepArg(st) == IF st.cmd = "sysupgrade" THEN Trim(soc_out) ELSE <<>>

Issued(st) == [what |-> st.what, cmd |-> st.cmd, arg |-> StepArg(st)]

\* Lines 385: the error of a command that reported a non-zero exit status.
CommandFailed(cmd) ==
  Error("command '" \o cmd \o "' failed with exit status: 1", <<>>)

\* Lines 316-317 and 377: the channel of a run_command that returned Ok.
\* After the last message the close is awaited with `??`, so the channel is
\* closed; after the reboot marker the outcome of the close is dropped.
ChannelAfterOk(ending, close) ==
  IF ending = "reboot marker" /\ close # "ok" THEN "open" ELSE "closed"

\* Lines 434, 445, 446, 449, 450, 460, 470: other_err!(run_command(..))?.
\* The call returns its output (after the last message or at the reboot
\* marker), or an error (the exit status is reported after the close, line
\* 377; a receive that timed out returns at line 286 with no close), or
\* does not return (its channel_open_session and exec have no timeout).
OpRunCommand ==
  /\ opc = "remote"
  /\ NextStep.what = "run_command"
  /\ steps' = Append(steps, Issued(NextStep))
  /\ \/ \E out \in SocOutputs, ending \in {"last message", "reboot marker"},
            close \in WithTimeout :
          /\ opc' = AfterStep
          /\ oret' = oret
          /\ soc_out' = IF Len(steps) = 0 THEN out ELSE soc_out
          /\ channels' = Append(channels, ChannelAfterOk(ending, close))
     \/ /\ OpReturn(OpErr(Other(CommandFailed(NextStep.cmd))))
        /\ soc_out' = soc_out
        /\ channels' = Append(channels, "closed")
     \/ /\ OpReturn(OpErr(Other(Elapsed)))
        /\ soc_out' = soc_out
        /\ channels' = Append(channels, "open")
     \/ /\ OpHang
        /\ soc_out' = soc_out
        /\ \E opened \in {<<>>, <<"open">>} : channels' = channels \o opened
  /\ UNCHANGED <<call, attempts, session, log>>
  /\ OpFrame

\* Line 448: other_err!(transfer_file(..))?.  The local file is opened
\* inside transfer_file (line 198), before the channel (line 206); Ok is
\* returned after the close succeeded (line 270), an error of a step in
\* between returns with no close.
OpTransferFile ==
  /\ opc = "remote"
  /\ NextStep.what = "transfer_file"
  /\ steps' = Append(steps, Issued(NextStep))
  /\ IF call.file_ok
     THEN \/ opc' = AfterStep /\ oret' = oret /\ channels' = Append(channels, "closed")
          \/ /\ \E e \in {Error("SCP fatal error", <<>>), Elapsed} :
                  OpReturn(OpErr(Other(e)))
             /\ channels' = Append(channels, "open")
          \/ /\ OpHang
             /\ \E opened \in {<<>>, <<"open">>} : channels' = channels \o opened
     ELSE /\ OpReturn(OpErr(Other(Error("No such file or directory (os error 2)", <<>>))))
          /\ channels' = channels
  /\ UNCHANGED <<call, attempts, session, soc_out, log>>
  /\ OpFrame

\* Lines 435-436, 451-452, 461-462, 471-472:
\* other_err!(session.disconnect(..).await)?, with no timeout, and Ok.
OpDisconnect ==
  /\ opc = "disconnect"
  /\ session' = "disconnect attempted"
  /\ \/ OpReturn(OpOk(IF call.op = "detect_soc" THEN Trim(soc_out) ELSE <<>>))
     \/ OpReturn(OpErr(Other(Error("Disconnected", <<>>))))
     \/ OpHang
  /\ UNCHANGED <<call, attempts, soc_out, steps, channels, log>>
  /\ OpFrame

OpNext ==
  \/ OpParseIp
  \/ OpConnect
  \/ OpAuthenticate
  \/ OpRunCommand
  \/ OpTransferFile
  \/ OpDisconnect

(***************************************************************************)
(* The front end: RubyFlasher::run and the tasks it spawns.                *)
(***************************************************************************)
Msg(m) == [m |-> m, action |-> ""]

\* Message::PromptPasswordAndRetry(RetryAction).
PromptMsg(a) == [m |-> "PromptPasswordAndRetry", action |-> a]

\* Lines 523-527: the message the prompt handler sends to retry.  The
\* message is the one a click sends; its action field keeps, for the record,
\* that the prompt handler sent it.
RetryMessage(action) ==
  [m |-> CASE action = "DetectSoc" -> "DetectSoc"
           [] action = "Flash" -> "Flash"
           [] OTHER -> "ResetDevice",
   action |-> "Retry"]

\* Lines 583, 657, 741: the retry action a failed operation asks for.
RetryActionOf(op) ==
  CASE op = "detect_soc" -> "DetectSoc"
    [] op = "flash" -> "Flash"
    [] OTHER -> "ResetDevice"

\* Passwords the user may type into the prompt.
PromptAnswers == {"p1"}

\* Lines 130-137: Display of ConnectionError.
ConnectionErrorDisplay(ce) ==
  IF ce.variant = "AuthFailure" THEN "Authentication failed: " \o ce.err.msg
  ELSE ce.err.msg

\* A test that finds no authentication failure.
NeverAuthFailure(ce) == FALSE

\* A test that takes every error for an authentication failure.
AlwaysAuthFailure(ce) == TRUE

\* Lines 570, 644, 728, 828: flasher::is_auth_error(&e) on the
\* ConnectionError an operation returned.
IsAuthFailure(ce) == is_auth_error(Error(ConnectionErrorDisplay(ce), <<>>))

\* What an operation may return to its task.
TaskResults(t) ==
  {OpOk(IF t.op = "detect_soc" THEN <<115>> ELSE <<>>),
   OpErr(AuthFailure(InvalidCredentials)),
   OpErr(Other(Elapsed))}
    \cup (IF t.op = "execute_command"
          THEN {OpErr(Other(CommandFailed(t.command)))} ELSE {})

\* A spawned task; until the task starts, retry keeps whether the message
\* that is being handled was sent by the prompt handler.
NewTask(op, cmd) ==
  [op |-> op, stage |-> "spawned", password |-> NoPassword, command |-> cmd,
   retry |-> (queue # <<>> /\ Head(queue).action = "Retry")]

\* The task that ended last and what its operation returned.
Finished(t, r) == [op |-> t.op, ret |-> r]

NoTask == Finished(NewTask("none", ""), OpPending)

RemoveAt(q, i) == SubSeq(q, 1, i - 1) \o SubSeq(q, i + 1, Len(q))

UiInit ==
  /\ password = NoPassword
  /\ soc = <<>>
  /\ port_ok = TRUE
  /\ ip_empty = TRUE
  /\ btn_detect = TRUE
  /\ btn_flash = FALSE
  /\ menu_btn = FALSE
  /\ manual_visible = FALSE
  /\ queue = <<>>
  /\ tasks = <<>>
  /\ running = TRUE
  /\ display = ""
  /\ events = 0
  /\ finished = NoTask

\* A step of the front end leaves the rest of the state alone.
UiFrame == UNCHANGED <<runVars, xferVars, opVars>>

\* A step of the program's, not of the user's.
ProgramFrame == UNCHANGED <<events, finished>> /\ UiFrame

\* The user acts on a widget that takes input; its callback sends msg.
UserSends(msg) ==
  /\ running
  /\ events < MaxEvents
  /\ events' = events + 1
  /\ queue' = Append(queue, msg)
  /\ UNCHANGED <<password, soc, port_ok, ip_empty, btn_detect, btn_flash,
                 menu_btn, manual_visible, tasks, running, display, finished>>
  /\ UiFrame

\* The user edits an input field, while no message waits: an edit made
\* behind waiting messages is handled after them and finds what an edit
\* made once they are handled finds.
UserEdits(msg) ==
  /\ queue = <<>>
  /\ queue' = Append(queue, msg)
  /\ UNCHANGED <<password, soc, port_ok, ip_empty, btn_detect, btn_flash,
                 menu_btn, manual_visible, tasks, running, display, events,
                 finished>>
  /\ UiFrame

\* Lines 417, 424: the inputs' callbacks.
UserEditsIp == running /\ UserEdits(Msg("IpChanged"))

UserEditsPort == running /\ UserEdits(Msg("PortChanged"))

\* Lines 463-464: the buttons' callbacks; a deactivated widget takes no
\* input.
UserClicksDetect == btn_detect /\ UserSends(Msg("DetectSoc"))

UserClicksFlash == btn_flash /\ UserSends(Msg("Flash"))

\* Lines 472-480: the menu's callback.
UserPicksReset == menu_btn /\ UserSends(Msg("ResetDevice"))

UserPicksManual == menu_btn /\ UserSends(Msg("EnterManualMode"))

\* Lines 483-485: the manual input (Enter) and the exit button; a hidden
\* widget takes no input.
UserEntersCommand == manual_visible /\ UserSends(Msg("ExecuteManualCommand"))

UserExitsManual == manual_visible /\ UserSends(Msg("ExitManualMode"))

\* Lines 509-511: the loop takes the next message.
Handling(m) == running /\ queue # <<>> /\ Head(queue).m = m

\* Lines 512-514.
HandleIpChanged ==
  /\ Handling("IpChanged")
  /\ queue' = Tail(queue)
  /\ ip_empty' \in BOOLEAN
  /\ UNCHANGED <<password, soc, port_ok, btn_detect, btn_flash, menu_btn,
                 manual_visible, tasks, running, display>>
  /\ ProgramFrame

\* Lines 515-517.
HandlePortChanged ==
  /\ Handling("PortChanged")
  /\ queue' = Tail(queue)
  /\ port_ok' \in BOOLEAN
  /\ UNCHANGED <<password, soc, ip_empty, btn_detect, btn_flash, menu_btn,
                 manual_visible, tasks, running, display>>
  /\ ProgramFrame

\* Lines 518-535: the prompt; the user types a password or refuses.
HandlePrompt ==
  /\ Handling("PromptPasswordAndRetry")
  /\ \/ \E new_password \in PromptAnswers :
          /\ password' = Pw(new_password)
          /\ queue' = Append(Tail(queue), RetryMessage(Head(queue).action))
          /\ UNCHANGED <<btn_detect, btn_flash, menu_btn, display>>
     \/ /\ display' = "Authentication failed and no password provided."
        /\ btn_detect' = TRUE
        /\ btn_flash' = TRUE
        /\ menu_btn' = TRUE
        /\ queue' = Tail(queue)
        /\ password' = password
  /\ UNCHANGED <<soc, port_ok, ip_empty, manual_visible, tasks, running>>
  /\ ProgramFrame

\* Lines 536-597, up to the spawn.
HandleDetectSoc ==
  /\ Handling("DetectSoc")
  /\ queue' = Tail(queue)
  /\ IF ~port_ok
     THEN /\ display' = "Error: invalid port specified."
          /\ UNCHANGED <<btn_detect, tasks>>
     ELSE /\ btn_detect' = FALSE
          /\ tasks' = Append(tasks, NewTask("detect_soc", ""))
          /\ display' = display
  /\ UNCHANGED <<password, soc, port_ok, ip_empty, btn_flash, menu_btn,
                 manual_visible, running>>
  /\ ProgramFrame

\* Lines 598-671, up to the spawn: the file chooser may be cancelled.
HandleFlash ==
  /\ Handling("Flash")
  /\ queue' = Tail(queue)
  /\ \/ UNCHANGED <<btn_detect, btn_flash, menu_btn, tasks, display>>
     \/ IF ~port_ok
        THEN /\ display' = "Error: invalid port specified."
             /\ UNCHANGED <<btn_detect, btn_flash, menu_btn, tasks>>
        ELSE /\ btn_detect' = FALSE
             /\ btn_flash' = FALSE
             /\ menu_btn' = FALSE
             /\ tasks' = Append(tasks, NewTask("flash", ""))
             /\ display' = display
  /\ UNCHANGED <<password, soc, port_ok, ip_empty, manual_visible, running>>
  /\ ProgramFrame

\* Lines 672-755, up to the spawn: the confirmation may be declined.
HandleResetDevice ==
  /\ Handling("ResetDevice")
  /\ queue' = Tail(queue)
  /\ \/ UNCHANGED <<btn_detect, btn_flash, menu_btn, tasks, display>>
     \/ IF ~port_ok
        THEN /\ display' = "Error: invalid port specified."
             /\ UNCHANGED <<btn_detect, btn_flash, menu_btn, tasks>>
        ELSE /\ btn_detect' = FALSE
             /\ btn_flash' = FALSE
             /\ menu_btn' = FALSE
             /\ tasks' = Append(tasks, NewTask("reset_device", ""))
             /\ display' = display
  /\ UNCHANGED <<password, soc, port_ok, ip_empty, manual_visible, running>>
  /\ ProgramFrame

\* Lines 756-776.
HandleEnterManualMode ==
  /\ Handling("EnterManualMode")
  /\ queue' = Tail(queue)
  /\ IF ~ip_empty
     THEN /\ btn_detect' = FALSE
          /\ btn_flash' = FALSE
          /\ menu_btn' = FALSE
          /\ manual_visible' = TRUE
          /\ display' = display
     ELSE /\ display' = "Error: Please enter an IP address first."
          /\ UNCHANGED <<btn_detect, btn_flash, menu_btn, manual_visible>>
  /\ UNCHANGED <<password, soc, port_ok, ip_empty, tasks, running>>
  /\ ProgramFrame

\* Lines 777-786.
HandleExitManualMode ==
  /\ Handling("ExitManualMode")
  /\ queue' = Tail(queue)
  /\ manual_visible' = FALSE
  /\ btn_detect' = TRUE
  /\ btn_flash' = TRUE
  /\ menu_btn' = TRUE
  /\ UNCHANGED <<password, soc, port_ok, ip_empty, tasks, running, display>>
  /\ ProgramFrame

\* Lines 787-845, up to the spawn: a rejected command returns from run().
HandleExecuteManualCommand ==
  /\ Handling("ExecuteManualCommand")
  /\ queue' = Tail(queue)
  /\ \E command \in {"", "uptime", "tail /var/log/auth.log"} :
       IF ~manual_visible \/ command = ""
       THEN running' = FALSE /\ UNCHANGED <<tasks, display>>
       ELSE IF ~port_ok
       THEN /\ display' = "Error: invalid port specified."
            /\ running' = FALSE
            /\ tasks' = tasks
       ELSE /\ tasks' = Append(tasks, NewTask("execute_command", command))
            /\ UNCHANGED <<running, display>>
  /\ UNCHANGED <<password, soc, port_ok, ip_empty, btn_detect, btn_flash,
                 menu_btn, manual_visible>>
  /\ ProgramFrame

\* Lines 555-556, 624-625, 708-709, 814-815: the task reads the address
\* and the remembered password.
TaskStart ==
  /\ running
  /\ \E i \in 1..Len(tasks) :
       /\ tasks[i].stage = "spawned"
       /\ tasks' = [tasks EXCEPT ![i].stage = "running", ![i].password = password,
                                 ![i].retry = FALSE]
  /\ UNCHANGED <<password, soc, port_ok, ip_empty, btn_detect, btn_flash,
                 menu_btn, manual_visible, queue, running, display>>
  /\ ProgramFrame

\* A task of DetectSoc that, on success, remembers the password the
\* operation connected with.
DetectSocStoresPassword(r) ==
  IF r.kind = "Ok"
  THEN /\ soc' = r.value
       /\ display' = "Done."
       /\ btn_detect' = TRUE /\ btn_flash' = TRUE /\ menu_btn' = TRUE
       /\ password' = Pw(ConnectPassword(password))
       /\ queue' = queue
  ELSE IF IsAuthFailure(r)
  THEN /\ password' = NoPassword
       /\ display' = "Authentication failed. Please enter password when prompted."
       /\ btn_detect' = TRUE /\ btn_flash' = FALSE /\ menu_btn' = FALSE
       /\ queue' = Append(queue, PromptMsg(RetryActionOf("detect_soc")))
       /\ soc' = soc
  ELSE /\ display' = "Error: " \o ConnectionErrorDisplay(r)
       /\ btn_detect' = TRUE /\ btn_flash' = FALSE /\ menu_btn' = FALSE
       /\ UNCHANGED <<password, queue, soc>>

\* Lines 563-594: the arms of the task of DetectSoc.
DetectSocDone(r) ==
  IF r.kind = "Ok"
  THEN /\ soc' = r.value
       /\ display' = "Done."
       /\ btn_detect' = TRUE /\ btn_flash' = TRUE /\ menu_btn' = TRUE
       /\ UNCHANGED <<password, queue>>
  ELSE IF IsAuthFailure(r)
  THEN /\ password' = NoPassword
       /\ display' = "Authentication failed. Please enter password when prompted."
       /\ btn_detect' = TRUE /\ btn_flash' = FALSE /\ menu_btn' = FALSE
       /\ queue' = Append(queue, PromptMsg(RetryActionOf("detect_soc")))
       /\ soc' = soc
  ELSE /\ display' = "Error: " \o ConnectionErrorDisplay(r)
       /\ btn_detect' = TRUE /\ btn_flash' = FALSE /\ menu_btn' = FALSE
       /\ UNCHANGED <<password, queue, soc>>

\* Lines 632-668 and 716-752: the arms of the tasks of Flash and
\* ResetDevice.
FlashOrResetDone(op, r) ==
  /\ btn_detect' = TRUE /\ btn_flash' = TRUE /\ menu_btn' = TRUE
  /\ soc' = soc
  /\ IF r.kind = "Ok"
     THEN /\ display' = "Review the log above to ensure everything went well."
          /\ UNCHANGED <<password, queue>>
     ELSE IF IsAuthFailure(r)
     THEN /\ password' = NoPassword
          /\ display' = "Authentication failed. Please enter password when prompted."
          /\ queue' = Append(queue, PromptMsg(RetryActionOf(op)))
     ELSE /\ display' = "Error: " \o ConnectionErrorDisplay(r)
          /\ UNCHANGED <<password, queue>>

\* Lines 822-842: the arms of the task of ExecuteManualCommand.
ExecuteDone(r) ==
  /\ UNCHANGED <<btn_detect, btn_flash, menu_btn, soc, queue>>
  /\ IF r.kind = "Ok"
     THEN display' = "Command completed." /\ password' = password
     ELSE IF IsAuthFailure(r)
     THEN /\ password' = NoPassword
          /\ display' =
               "Authentication failed. Please set password in a regular operation first."
     ELSE display' = "Error: " \o ConnectionErrorDisplay(r) /\ password' = password

\* Lines 558-594, 627-668, 711-752, 817-842: the operation returns and the
\* task matches its result and ends.
TaskDone ==
  /\ running
  /\ \E i \in 1..Len(tasks) :
       /\ tasks[i].stage = "running"
       /\ tasks' = RemoveAt(tasks, i)
       /\ \E r \in TaskResults(tasks[i]) :
            /\ finished' = Finished(tasks[i], r)
            /\ CASE tasks[i].op = "detect_soc" -> DetectSocDone(r)
                 [] tasks[i].op = "execute_command" -> ExecuteDone(r)
                 [] OTHER -> FlashOrResetDone(tasks[i].op, r)
  /\ UNCHANGED <<port_ok, ip_empty, manual_visible, running, events>>
  /\ UiFrame

UiNext ==
  \/ UserEditsIp
  \/ UserEditsPort
  \/ UserClicksDetect
  \/ UserClicksFlash
  \/ UserPicksReset
  \/ UserPicksManual
  \/ UserEntersCommand
  \/ UserExitsManual
  \/ HandleIpChanged
  \/ HandlePortChanged
  \/ HandlePrompt
  \/ HandleDetectSoc
  \/ HandleFlash
  \/ HandleResetDevice
  \/ HandleEnterManualMode
  \/ HandleExitManualMode
  \/ HandleExecuteManualCommand
  \/ TaskStart
  \/ TaskDone

(***************************************************************************)
(* The parts of the state a specification does not use stay as they are    *)
(* set here.                                                               *)
(***************************************************************************)
RunIdle ==
  /\ rpc = "idle" /\ result = None /\ res = <<>> /\ buf = <<>>
  /\ rsink = <<>> /\ rchan = <<>> /\ rret = Pending /\ msgs = <<>>

XferIdle ==
  /\ tpc = "idle" /\ file_size = 0 /\ total_size = 0 /\ total_sent = 0
  /\ chunk_start = 0 /\ written = <<>> /\ tsink = <<>> /\ tchan = <<>>
  /\ tret = Pending /\ acks = <<>> /\ drained = <<>> /\ silence = 0

OpIdle ==
  /\ call = NoCall /\ opc = "idle" /\ attempts = <<>> /\ session = "none"
  /\ soc_out = <<>> /\ steps = <<>> /\ oret = OpPending
  /\ channels = <<>> /\ log = <<>>

UiIdle ==
  /\ password = NoPassword /\ soc = <<>> /\ port_ok = TRUE /\ ip_empty = TRUE
  /\ btn_detect = TRUE /\ btn_flash = FALSE /\ menu_btn = FALSE
  /\ manual_visible = FALSE /\ queue = <<>> /\ tasks = <<>>
  /\ running = FALSE /\ display = "" /\ events = 0
  /\ finished = NoTask

(***************************************************************************)
(* Specifications.                                                         *)
(***************************************************************************)
InitRun == RunInit /\ XferIdle /\ OpIdle /\ UiIdle

SpecRun == InitRun /\ [][RunNext]_vars

InitTransfer == RunIdle /\ TransferInit /\ OpIdle /\ UiIdle

SpecTransfer == InitTransfer /\ [][TransferNext]_vars

\* transfer_file runs as a task of the runtime: as long as it has not
\* returned and does not wait on an await without a timeout, it takes its
\* next step.  What the remote end does in that step is not constrained.
SpecTransferLive == SpecTransfer /\ WF_vars(TransferNext)

InitOp == RunIdle /\ XferIdle /\ OpInit /\ UiIdle

SpecOp == InitOp /\ [][OpNext]_vars

InitUI == RunIdle /\ XferIdle /\ OpIdle /\ UiInit

SpecUI == InitUI /\ [][UiNext]_vars

(***************************************************************************)
(* Properties of transfer_file, checked under SpecTransfer.                *)
(***************************************************************************)
\* The number a sequence of decimal digits writes.
RECURSIVE DecValue(_)
DecValue(d) ==
  IF d = <<>> THEN 0 ELSE 10 * DecValue(SubSeq(d, 1, Len(d) - 1)) + (d[Len(d)] - 48)

\* h is the line "C0644 <n> filename\n" with n in decimal, no leading zero.
IsHeaderOf(h, n) ==
  LET head == <<67, 48, 54, 52, 52, 32>>
      tail == <<32, 102, 105, 108, 101, 110, 97, 109, 101, 10>>
      d    == SubSeq(h, Len(head) + 1, Len(h) - Len(tail))
  IN  /\ Len(h) > Len(head) + Len(tail)
      /\ Prefix(h, Len(head)) = head
      /\ SubSeq(h, Len(h) - Len(tail) + 1, Len(h)) = tail
      /\ \A i \in 1..Len(d) : d[i] \in 48..57
      /\ (Len(d) > 1 => d[1] # 48)
      /\ DecValue(d) = n

\* The writes w[2..k-1] are slices of the file that go through 0..n in order,
\* leave no gap, repeat nothing, and hold 1 to 65536 bytes each.
BodyInOrder(w, n) ==
  LET k == Len(w)
  IN  /\ \A i \in 2..(k - 1) :
           /\ w[i].lit = <<>>
           /\ w[i].from = (IF i = 2 THEN 0 ELSE w[i - 1].to)
           /\ w[i].from < w[i].to
           /\ w[i].to - w[i].from <= 65536
      /\ (IF k > 2 THEN w[k - 1].to ELSE 0) = n

RECURSIVE BytesWritten(_)
BytesWritten(w) ==
  IF w = <<>> THEN 0 ELSE WriteLen(Head(w)) + BytesWritten(Tail(w))

\* The progress reports among the lines given to status_update.
ProgressReports == SelectSeq(tsink, LAMBDA l : l.kind = "progress")

\* C1: a transfer_file call that returns Ok wrote the header line of the
\* file's size, then the file's bytes once each and in order in chunks of at
\* most 65536 bytes, then one null byte, and wrote as many bytes as the
\* total of its last progress report.
C1_SuccessfulTransferWrites ==
  (tpc = "returned" /\ tret.kind = "Ok") =>
    /\ Len(written) >= 2
    /\ written[1].from = written[1].to
    /\ IsHeaderOf(written[1].lit, file_size)
    /\ BodyInOrder(written, file_size)
    /\ written[Len(written)] = Literal(<<0>>)
    /\ ProgressReports # <<>>
    /\ BytesWritten(written) = ProgressReports[Len(ProgressReports)].total
    /\ BytesWritten(written) = ProgressReports[Len(ProgressReports)].sent

\* A file of one full chunk and one byte more was sent.
C1_Witness ==
  /\ tpc = "returned"
  /\ tret.kind = "Ok"
  /\ file_size = CHUNK_SIZE + 1
  /\ Len(written) = 4

(***************************************************************************)
(* Properties of run_command, checked under SpecRun.                       *)
(***************************************************************************)
\* The exit-status messages received, in order.
ExitStatuses == SelectSeq(msgs, LAMBDA m : m.kind = "ExitStatus")

\* An exit-status message with a non-zero status was received.
NonZeroStatusReceived ==
  \E i \in 1..Len(ExitStatuses) : ExitStatuses[i].exit_status # 0

\* The status recorded is the one of the last exit-status message.
RecordedNonZero ==
  ExitStatuses # <<>> /\ ExitStatuses[Len(ExitStatuses)].exit_status # 0

\* The call failed in the transport: an open, exec, receive, EOF or close
\* that failed or timed out.
TransportFailure == rret.kind = "Err" /\ rret.why # "exit status"

\* The call went through its normal end: the "done" line was given.
NormalEnd == rsink[Len(rsink)].kind = "done"

\* The call ended early on the reboot marker: the channel saw nothing but
\* open, exec and close.
RebootEnd == rchan = <<"open", "exec", "close">>

\* C2 as stated: a call that returns without a transport failure returns an
\* error if a non-zero exit status was received, and success if the status
\* recorded is zero or there is none.
C2_AsStated ==
  (rpc = "returned" /\ ~TransportFailure) =>
    /\ NonZeroStatusReceived => rret.kind = "Err"
    /\ ~RecordedNonZero => rret.kind = "Ok"

\* C2, amended: run_command returns the exit-status error exactly when it
\* went through its normal end with a non-zero status in the last
\* exit-status message; it returns Ok with the output when it went through
\* its normal end otherwise, and when the reboot marker ended it early,
\* whatever status was received; every other return is a transport failure.
C2_ExitStatusResolution ==
  rpc = "returned" =>
    IF RebootEnd THEN rret = Ok(res)
    ELSE IF NormalEnd
    THEN rret = (IF RecordedNonZero THEN Err("exit status") ELSE Ok(res))
    ELSE TransportFailure

\* The exit-status error was returned although Data arrived after the status.
C2_Witness ==
  /\ rpc = "returned"
  /\ rret = Err("exit status")
  /\ Len(msgs) >= 2
  /\ msgs[1].kind = "ExitStatus"
  /\ msgs[Len(msgs)].kind = "Data"

\* The text a step added to the output.
NewText == SubSeq(res', Len(res) + 1, Len(res'))

\* A Data message was received whose newly decoded text holds the marker.
MarkerDelivered ==
  /\ rpc = "recv"
  /\ Len(msgs') = Len(msgs) + 1
  /\ msgs'[Len(msgs')].kind = "Data"
  /\ Contains(NewText, Marker)

\* The early exit begins: the line with the marker is the last one given to
\* status_update, and nothing was done on the channel.
MarkerStep ==
  MarkerDelivered =>
    /\ rpc' = "reboot close"
    /\ rret' = Pending
    /\ Len(rsink') > Len(rsink)
    /\ Contains(rsink'[Len(rsink')].text, Marker)
    /\ rchan' = rchan

\* The early exit ends: one close is attempted and, whatever it gives, the
\* call returns Ok with the output so far; no message is received, no line
\* is given, no EOF is sent and no drain is run.
RebootStep ==
  rpc = "reboot close" =>
    /\ rpc' = "returned"
    /\ rret' = Ok(res)
    /\ res' = res
    /\ msgs' = msgs
    /\ rsink' = rsink
    /\ rchan' = <<"open", "exec", "close">>

\* C5: when a Data message delivers decoded text with a line that holds
\* "Unconditional reboot", run_command gives that line to status_update and
\* returns Ok with the output accumulated so far right after it: it receives
\* no further message, sends no EOF, runs no drain, gives no "done" line, and
\* attempts one close whose outcome it ignores.
C5_RebootMarkerEndsCall == [][MarkerStep /\ RebootStep]_vars

\* A call returned early on the marker, with the marker in its output and
\* no "done" line given.
C5_Witness ==
  /\ rpc = "returned"
  /\ RebootEnd
  /\ rret.kind = "Ok"
  /\ Contains(rret.text, Marker)
  /\ \A i \in 1..Len(rsink) : rsink[i].kind # "done"

\* The bytes of the Data messages received, in order.
RECURSIVE DataBytes(_)
DataBytes(ms) ==
  IF ms = <<>> THEN <<>>
  ELSE (IF Head(ms).kind = "Data" THEN Head(ms).data ELSE <<>>)
         \o DataBytes(Tail(ms))

\* The receive loop is over and the output is complete.
OutputComplete ==
  \/ rpc \in {"eof", "drain", "close"}
  \/ rpc = "returned" /\ rret.kind = "Ok"

\* C6: when the bytes of the Data messages received by a call are valid
\* text taken together, the output accumulated is the decoding of these
\* bytes, however they were cut into messages.
C6_FragmentationInvariant ==
  (OutputComplete /\ from_utf8(DataBytes(msgs)).ok) =>
    /\ res = from_utf8(DataBytes(msgs)).text
    /\ (rpc = "returned" => rret.text = res)

\* U+00E9 came cut in two and was decoded as one character.
C6_Witness ==
  /\ rpc = "returned"
  /\ rret.kind = "Ok"
  /\ Len(msgs) >= 2
  /\ msgs[1] = DataMsg(<<195>>)
  /\ msgs[2] = DataMsg(<<169>>)
  /\ rret.text # <<>>
  /\ rret.text[1] = 233

(***************************************************************************)
(* Properties of transfer_file's failures, checked under SpecTransfer.     *)
(***************************************************************************)
\* The failures after which a close is expected: an acknowledgment that
\* failed or timed out, a send that timed out, an EOF that failed.
FailedAfterOpen ==
  /\ tpc = "returned"
  /\ tret.kind = "Err"
  /\ tret.why \in
       {"SCP error", "SCP error: Unknown SCP error", "SCP fatal error",
        "Unknown SCP response", "Empty SCP response",
        "Channel closed unexpectedly", "Timeout waiting for SCP acknowledgment",
        "send timeout", "eof", "eof timeout"}

\* C4 as stated: when transfer_file returns such a failure, a close of the
\* channel it opened was attempted.
C4_AsStated ==
  FailedAfterOpen =>
    /\ tchan # <<>>
    /\ tchan[1] = "open"
    /\ \E i \in 1..Len(tchan) : tchan[i] = "close"

\* C9 as stated: no step of transfer_file waits on the remote end for ever.
C9_AsStated == tpc # "hung"

(***************************************************************************)
(* Properties of the four operations, checked under SpecOp.                *)
(***************************************************************************)
\* C3 as stated: an operation that established a session and returned has
\* attempted to disconnect it.
C3_AsStated ==
  (opc = "returned" /\ session # "none") => session = "disconnect attempted"

\* The text is in the error's own message or in the message of one of its
\* causes, whatever the case of the letters.
Mentions(e, text) ==
  \/ Contains(to_lowercase(e.msg), text)
  \/ \E i \in 1..Len(e.chain) : Contains(to_lowercase(e.chain[i]), text)

\* C10 as stated: an error of connect that mentions "permission denied",
\* "authentication failed" or "no such user" is classified as an
\* authentication failure, and one that is a plain network reset is not.
C10_AsStated ==
  (opc = "returned" /\ oret.kind = "Err" /\ session = "none" /\ attempts # <<>>) =>
    /\ (\E text \in {"permission denied", "authentication failed", "no such user"} :
          Mentions(oret.err, text))
         => oret.variant = "AuthFailure"
    /\ (oret.err.msg = "Connection reset by peer"
          /\ \A i \in 1..Len(oret.err.chain) :
               oret.err.chain[i] \in {"Connection reset by peer", "Disconnected"})
         => oret.variant = "Other"

(***************************************************************************)
(* Properties of the front end, checked under SpecUI.                      *)
(***************************************************************************)
\* A task ends in this step and its operation returned an authentication
\* failure.
AuthFailedStep ==
  /\ Len(tasks') < Len(tasks)
  /\ finished'.ret.kind = "Err"
  /\ finished'.ret.variant = "AuthFailure"

\* The prompt is being handled and the user supplies a password: the one
\* step that changes the queue and keeps its length.
PasswordSuppliedStep ==
  /\ Handling("PromptPasswordAndRetry")
  /\ Len(queue') = Len(queue)
  /\ queue' # queue

\* The message that starts an operation is handled.
StartHandledStep(m) == Handling(m) /\ queue' = Tail(queue)

StartMessageOf(op) ==
  CASE op = "detect_soc" -> "DetectSoc"
    [] op = "flash" -> "Flash"
    [] OTHER -> "ResetDevice"

C8_AsStated ==
  Cardinality({i \in 1..Len(tasks) : tasks[i].op = "execute_command"}) <= 1

(***************************************************************************)
(* Properties of the four operations, continued (SpecOp).                  *)
(***************************************************************************)
\* The operation went through smart_connect.
ConnectCalled == opc \notin {"idle", "parse ip", "connect"} /\ call.ip_ok

\* C11: a smart_connect call makes one attempt and no more, whatever comes
\* of it: with the remembered password when there is one, with "12345" when
\* there is none.
C11_OneAttempt ==
  /\ Len(attempts) <= 1
  /\ ConnectCalled =>
       attempts = <<IF call.password.some THEN call.password.v ELSE "12345">>
  /\ (opc = "returned" /\ ~call.ip_ok) => attempts = <<>>

\* The remembered password was refused and nothing else was tried.
C11_Witness ==
  /\ opc = "returned"
  /\ oret.kind = "Err"
  /\ oret.variant = "AuthFailure"
  /\ call.password.some
  /\ attempts = <<call.password.v>>

(***************************************************************************)
(* Properties of transfer_file, continued (SpecTransfer).                  *)
(***************************************************************************)
\* The trailing null byte was sent.
NullStepDone == written # <<>> /\ written[Len(written)].lit = <<0>>

\* C12: the progress reports of a transfer_file run show a sent counter
\* (and a percentage) that never decreases and never exceeds the total, the
\* same total in each, and once the trailing null byte was sent the last
\* report shows sent = total, 100.0%.
C12_ProgressMonotone ==
  LET p == ProgressReports
  IN  /\ \A i \in 1..Len(p) :
           /\ p[i].sent <= p[i].total
           /\ p[i].percent <= 1000
           /\ p[i].total = file_size + Len(written[1].lit) + 1
      /\ \A i \in 1..(Len(p) - 1) :
           /\ p[i].sent <= p[i + 1].sent
           /\ p[i].percent <= p[i + 1].percent
      /\ NullStepDone =>
           /\ p # <<>>
           /\ p[Len(p)].sent = p[Len(p)].total
           /\ p[Len(p)].percent = 1000

\* A file of two full chunks was sent up to the null byte: four reports.
C12_Witness ==
  /\ NullStepDone
  /\ file_size = 2 * CHUNK_SIZE
  /\ Len(ProgressReports) = 4
  /\ ProgressReports[1].percent < ProgressReports[2].percent

\* A transfer of a file of 130 bytes returned Ok.
Sent130 == tpc = "returned" /\ tret.kind = "Ok" /\ file_size = 130

\* C13 as stated: a file of 130 bytes is sent with a header of 18 bytes,
\* 149 bytes in all, and the last progress report shows 149 of 149.
C13_AsStated ==
  Sent130 =>
    /\ Len(written[1].lit) = 18
    /\ BytesWritten(written) = 149
    /\ ProgressReports[Len(ProgressReports)].sent = 149
    /\ ProgressReports[Len(ProgressReports)].total = 149

\* C13, amended: a file of 130 bytes is sent with the header
\* "C0644 130 filename\n" of 19 bytes, 150 bytes in all (header, 130 body
\* bytes, one null byte), and the last progress report shows 150 of 150,
\* 100.0%.
C13_HeaderAndTotal ==
  Sent130 =>
    /\ Len(written[1].lit) = 19
    /\ Len(written) = 3
    /\ WriteLen(written[2]) = 130
    /\ BytesWritten(written) = 150
    /\ ProgressReports[Len(ProgressReports)].sent = 150
    /\ ProgressReports[Len(ProgressReports)].total = 150
    /\ ProgressReports[Len(ProgressReports)].percent = 1000

\* The file of 130 bytes was sent and its header ends with the newline.
C13_Witness ==
  /\ Sent130
  /\ written[1].lit[Len(written[1].lit)] = 10
  /\ SubSeq(written[1].lit, 7, 9) = <<49, 51, 48>>

(***************************************************************************)
(* Properties of the four operations, continued (SpecOp).                  *)
(***************************************************************************)
\* The remote steps of flash, in the order asked for.
FlashOrder ==
  <<[what |-> "run_command", cmd |-> "fw_printenv -n soc"],
    [what |-> "run_command", cmd |-> "ruby_stop.sh || true"],
    [what |-> "transfer_file", cmd |-> "scp -t"],
    [what |-> "run_command", cmd |-> "sh -c 'gunzip -c | tar -xvC /tmp'"],
    [what |-> "run_command", cmd |-> "sysupgrade"]>>

\* A step failed: the operation returned an error from a session it had
\* established, with no disconnect attempted.
StepFailed == opc = "returned" /\ oret.kind = "Err" /\ session = "established"

\* C14: the steps a flash operation has issued are the first ones of
\* identify SOC, stop service, firmware copy, unpack, upgrade, in this
\* order; a step is issued only on an established session and while no step
\* has failed; the upgrade command carries the trimmed output of this
\* operation's identify-SOC command; the disconnect comes after all five.
C14_FlashOrder ==
  call.op = "flash" =>
    /\ Len(steps) <= Len(FlashOrder)
    /\ \A i \in 1..Len(steps) :
         /\ steps[i].what = FlashOrder[i].what
         /\ steps[i].cmd = FlashOrder[i].cmd
         /\ steps[i].arg = (IF i = 5 THEN Trim(soc_out) ELSE <<>>)
    /\ steps # <<>> => session # "none"
    /\ opc = "remote" => (session = "established" /\ Len(steps) < 5)
    /\ StepFailed => steps # <<>>
    /\ (opc = "disconnect" \/ session = "disconnect attempted") => Len(steps) = 5

\* A flash went through its five steps and the disconnect, with the SOC
\* output " t " trimmed to "t" in the upgrade command.
C14_Witness ==
  /\ call.op = "flash"
  /\ opc = "returned"
  /\ oret.kind = "Ok"
  /\ Len(steps) = 5
  /\ soc_out = <<32, 116, 32>>
  /\ steps[5].arg = <<116>>

\* C15 as stated: a flash whose local file cannot be opened makes no
\* connection and runs no remote command.
C15_AsStated ==
  (call.op = "flash" /\ ~call.file_ok) => (attempts = <<>> /\ steps = <<>>)

\* C16 as stated: whenever the session has opened a new channel, every
\* channel it opened before has been closed.
C16_AsStated ==
  \A i \in 1..(Len(channels) - 1) : channels[i] = "closed"

\* C17 as stated: an operation whose remote steps all succeeded, and which
\* therefore reached its disconnect, reports success when it returns,
\* whatever the disconnect did.
C17_AsStated ==
  (opc = "returned" /\ session = "disconnect attempted"
     /\ Len(steps) = Len(Plan(call)))
    => oret.kind = "Ok"

\* The prompt is being handled and the user refuses it: the one step that
\* takes the prompt off the queue and puts nothing in its place.
PromptRefusedStep ==
  /\ Handling("PromptPasswordAndRetry")
  /\ queue' = Tail(queue)

\* C18 as stated: when the user refuses the credential prompt, no message
\* is sent, no task is spawned, and the remembered credential is absent
\* afterwards.
C18_AsStated ==
  [][PromptRefusedStep =>
       /\ tasks' = tasks
       /\ password' = NoPassword]_vars

\* C19 as stated: no log record of an operation contains the password the
\* operation connects with, be it the remembered credential or the factory
\* default.
C19_AsStated ==
  \A i \in 1..Len(log), j \in 1..Len(attempts) : ~Contains(log[i], attempts[j])

\* An operation that was given an address that does not parse has returned.
InvalidIpReturned == ~call.ip_ok /\ opc = "returned"

\* C20: an operation whose address does not parse never gets past the
\* parse: it makes no connection attempt, logs nothing of a connection,
\* opens no session and no channel, issues no remote step, and returns an
\* error of the Other variant that the front end does not take for an
\* authentication failure.  This holds for each of the four operations.
C20_InvalidIpFailsLocally ==
  (call \in Calls /\ ~call.ip_ok) =>
    /\ opc \in {"parse ip", "returned"}
    /\ attempts = <<>>
    /\ log = <<>>
    /\ session = "none"
    /\ channels = <<>>
    /\ steps = <<>>
    /\ opc = "returned" =>
         /\ oret.kind = "Err"
         /\ oret.variant = "Other"
         /\ oret.err.msg = "invalid IP address syntax"
         /\ ~IsAuthFailure(oret)

\* A flash with a remembered password and an address that does not parse
\* has returned its error.
C20_Witness ==
  /\ InvalidIpReturned
  /\ call.op = "flash"
  /\ call.password.some
  /\ oret.kind = "Err"
  /\ attempts = <<>>

(***************************************************************************)
(* Acknowledgments of the transfer.                                        *)
(***************************************************************************)
\* An acknowledgment that counts as success: Data that starts with 0, a
\* Success message, or a message of any kind other than Data.
AckAccepted(ev) ==
  \/ ev.kind = "Data" /\ ev.data # <<>> /\ ev.data[1] = 0
  \/ ev.kind \notin {"Data", "None", "Elapsed"}

\* The errors a wait for an acknowledgment can end with.
AckErrors ==
  {"SCP error", "SCP error: Unknown SCP error", "SCP fatal error",
   "Unknown SCP response", "Empty SCP response", "Channel closed unexpectedly",
   "Timeout waiting for SCP acknowledgment"}

\* The last acknowledgment wait received something that is not accepted.
AckRefused == acks # <<>> /\ ~AckAccepted(acks[Len(acks)])

\* C21: every wait for an acknowledgment takes one message.  Data starting
\* with 0, Success and every other kind of message let the transfer go on;
\* Data starting with 1 ends it with the SCP error that carries the rest of
\* the bytes (or the fixed unknown-error text when there are none), Data
\* starting with 2 with the fatal error, empty Data and any other first byte
\* with an error, the end of the channel with "closed unexpectedly", and the
\* timeout with the timeout error.
C21_AcknowledgmentMapping ==
  /\ Len(acks) <= 3
  /\ tpc = "ack 1" => acks = <<>>
  /\ tpc = "send header" => Len(acks) = 1
  /\ tpc = "ack 2" => Len(acks) = 1
  /\ tpc \in {"send chunk", "send null"} => Len(acks) = 2
  /\ tpc = "ack 3" => Len(acks) = 2
  /\ tpc \in {"eof", "drain", "close"} => Len(acks) = 3
  /\ \A i \in 1..(Len(acks) - 1) : AckAccepted(acks[i])
  /\ (acks # <<>> /\ AckAccepted(acks[Len(acks)])) =>
       ~(tret.kind = "Err" /\ tret.why \in AckErrors)
  /\ AckRefused =>
       LET ev == acks[Len(acks)]
       IN  /\ tpc = "returned"
           /\ tret.kind = "Err"
           /\ tret.why \in AckErrors
           /\ (ev.kind = "Data" /\ ev.data = <<>>) =>
                tret.why = "Empty SCP response"
           /\ (ev.kind = "Data" /\ ev.data # <<>> /\ ev.data[1] = 1) =>
                IF Len(ev.data) > 1
                THEN /\ tret.why = "SCP error"
                     /\ tret.text = from_utf8_lossy(Suffix(ev.data, 1))
                     /\ tret.text # <<>>
                ELSE tret.why = "SCP error: Unknown SCP error"
           /\ (ev.kind = "Data" /\ ev.data # <<>> /\ ev.data[1] = 2) =>
                tret.why = "SCP fatal error"
           /\ (ev.kind = "Data" /\ ev.data # <<>> /\ ev.data[1] > 2) =>
                tret.why = "Unknown SCP response"
           /\ ev.kind = "None" => tret.why = "Channel closed unexpectedly"
           /\ ev.kind = "Elapsed" =>
                tret.why = "Timeout waiting for SCP acknowledgment"

\* A transfer whose first wait received a window adjustment and went on, and
\* whose second wait received the byte 1 followed by "e".
C21_Witness ==
  /\ tpc = "returned"
  /\ acks = <<OtherMsg("WindowAdjusted"), DataMsg(<<1, 101>>)>>
  /\ tret.why = "SCP error"
  /\ tret.text = <<101>>

\* Some wait for an acknowledgment of the transfer received something that
\* is not accepted.
AnyAckRefused == \E i \in 1..Len(acks) : ~AckAccepted(acks[i])

\* C22: once a wait for an acknowledgment has failed, the transfer has
\* returned an error and the channel has been written exactly what was
\* written before that wait: nothing for the initial wait, the header alone
\* for the wait after the header, the header, the body and the null byte
\* for the final wait.  Nothing is sent again, no EOF or close is attempted
\* and no success line is reported.
C22_FailedAckEndsTransfer ==
  AnyAckRefused =>
    /\ ~AckAccepted(acks[Len(acks)])
    /\ tpc = "returned"
    /\ tret.kind = "Err"
    /\ tchan = <<"open", "exec">>
    /\ Len(tsink) = Len(written)
    /\ \A i \in 1..Len(tsink) : tsink[i].kind # "File sent successfully!"
    /\ Len(acks) = 1 => written = <<>>
    /\ Len(acks) = 2 => written = <<Literal(HeaderLine(file_size))>>
    /\ Len(acks) = 3 =>
         /\ NullStepDone
         /\ written[1] = Literal(HeaderLine(file_size))
         /\ BytesWritten(written) = total_size
         /\ \A i, j \in 1..Len(written) : written[i] = written[j] => i = j

\* The wait after the header of a two-chunk file received the fatal byte:
\* the header is all that was written.
C22_Witness ==
  /\ tpc = "returned"
  /\ file_size = 2 * CHUNK_SIZE
  /\ acks = <<DataMsg(<<0>>), DataMsg(<<2>>)>>
  /\ tret = Err("SCP fatal error")
  /\ Len(written) = 1

\* A task ends with an error of its operation whose text is_auth_error does
\* not match.
OtherFailedStep ==
  /\ Len(tasks') < Len(tasks)
  /\ finished'.ret.kind = "Err"
  /\ ~is_auth_error(Error(ConnectionErrorDisplay(finished'.ret), <<>>))

Received == msgs'[Len(msgs')]

ReceivedOne == rpc = "recv" /\ Len(msgs') = Len(msgs) + 1

\* An exit status was received earlier in the call.
StatusSeen == \E i \in 1..Len(msgs) : msgs[i].kind = "ExitStatus"

\* C24: an exit status is recorded and the receive loop goes on.  A Data
\* message received after it is decoded and appended to the output and its
\* lines are given to status_update as before; a stderr message received
\* after it is given to status_update and leaves the output alone.  The loop
\* is left only when the channel reports no further message, when a receive
\* times out, or when the reboot marker was seen.
C24_ExitStatusKeepsLoop ==
  [][/\ (ReceivedOne /\ Received.kind = "ExitStatus") =>
          /\ rpc' = "recv"
          /\ result' = [some |-> TRUE, v |-> Received.exit_status]
          /\ res' = res /\ rsink' = rsink /\ buf' = buf /\ rchan' = rchan
          /\ rret' = Pending
     /\ (ReceivedOne /\ StatusSeen /\ Received.kind = "Data") =>
          LET dec == DecodeBuffer(buf \o Received.data)
          IN  /\ res' = res \o dec.valid_str
              /\ rsink' = rsink \o WalkLines(Split(dec.valid_str)).out
              /\ result' = result
              /\ rpc' \in {"recv", "reboot close"}
     /\ (ReceivedOne /\ StatusSeen /\ Received.kind = "ExtendedData"
           /\ Received.ext = 1) =>
          /\ res' = res
          /\ Len(rsink') > Len(rsink)
          /\ SubSeq(rsink', 1, Len(rsink)) = rsink
          /\ \A i \in (Len(rsink) + 1)..Len(rsink') : rsink'[i].kind = "stderr"
          /\ rpc' = "recv"
     /\ (rpc = "recv" /\ rpc' # "recv") =>
          \/ rpc' = "eof" /\ msgs' = msgs
          \/ rpc' = "returned" /\ rret' = Err("receive timeout") /\ msgs' = msgs
          \/ rpc' = "reboot close" /\ MarkerDelivered]_vars

\* A non-zero exit status came first; the Data and the stderr message that
\* followed it are in the output and in the lines given to status_update.
C24_Witness ==
  /\ msgs = <<ExitMsg(1), DataMsg(<<97, 32, 10>>), ExtMsg(<<101, 10>>, 1)>>
  /\ res = <<97, 32, 10>>
  /\ \E i \in 1..Len(rsink) : rsink[i].kind = "line" /\ rsink[i].text = <<97>>
  /\ \E i \in 1..Len(rsink) : rsink[i].kind = "stderr"
  /\ rpc = "returned"
  /\ rret = Err("exit status")

\* The connect-and-authenticate step of an operation has failed.
ConnectFailed == opc = "returned" /\ call.ip_ok /\ session = "none"

\* The connect-and-authenticate step of an operation has succeeded.
ConnectSucceeded == session # "none"

\* C25: the connect-and-authenticate step ends in a session, in an
\* authentication failure or in another failure, and in one of them only.
\* A password the library reports as declined gives the authentication
\* failure "invalid credentials"; any other error is an authentication
\* failure exactly when is_auth_error matches it; the elapsed connection
\* timeout is never one.
C25_ConnectOutcomes ==
  /\ ~(ConnectFailed /\ ConnectSucceeded)
  /\ ConnectSucceeded => (attempts # <<>> /\ opc # "authenticate")
  /\ ConnectFailed =>
       /\ oret.kind = "Err"
       /\ oret.variant \in {"AuthFailure", "Other"}
       /\ oret.variant = "AuthFailure" <=> is_auth_error(oret.err)
       /\ oret.err = InvalidCredentials => oret.variant = "AuthFailure"
       /\ oret.err = Elapsed => oret.variant = "Other"
       /\ oret.err = Error("Permission Denied", <<>>) => oret.variant = "AuthFailure"
       /\ oret.err = Error("Connection reset by peer", <<>>) => oret.variant = "Other"

\* The library declined the password of a detect_soc.
C25_Witness ==
  /\ ConnectFailed
  /\ call.op = "detect_soc"
  /\ oret.err = InvalidCredentials
  /\ oret.variant = "AuthFailure"

\* The task at position i, spawned for a message the prompt handler sent,
\* starts: it reads the remembered credential.
RetriedTaskStarts(i) ==
  /\ i \in 1..Len(tasks)
  /\ Len(tasks') = Len(tasks)
  /\ tasks[i].retry
  /\ tasks[i].stage = "spawned"
  /\ tasks'[i].stage = "running"

\* C26 as stated: a task reads the remembered credential when it starts; a
\* detected authentication failure leaves the credential absent; a password
\* supplied to the prompt is remembered, and the operation that is retried
\* for it starts with a supplied password.
C26_AsStated ==
  [][/\ \A i \in 1..Len(tasks) :
          (Len(tasks') = Len(tasks) /\ tasks[i].stage = "spawned"
             /\ tasks'[i].stage = "running") => tasks'[i].password = password
     /\ AuthFailedStep => password' = NoPassword
     /\ PasswordSuppliedStep => (password'.some /\ password'.v \in PromptAnswers)
     /\ \A i \in 1..Len(tasks) :
          RetriedTaskStarts(i) =>
            (tasks'[i].password.some /\ tasks'[i].password.v \in PromptAnswers)
    ]_vars

\* C27 as stated: a flash that has issued the stop-service command goes on
\* to the transfer, whatever became of that command: it never returns with
\* the stop-service command as the last step it issued.
C27_AsStated ==
  (call.op = "flash" /\ opc = "returned" /\ Len(steps) >= 2) => Len(steps) >= 3

\* C28 as stated: a message of the error stream adds nothing to the output
\* of the call, and the lines it gives to status_update are its non-empty
\* lines, each with the prefix "stderr:"; no empty line is given.
C28_AsStated ==
  [][(ReceivedOne /\ Received.kind = "ExtendedData" /\ Received.ext = 1) =>
       /\ res' = res
       /\ SubSeq(rsink', 1, Len(rsink)) = rsink
       /\ \A i \in (Len(rsink) + 1)..Len(rsink') :
            /\ rsink'[i].kind = "stderr"
            /\ rsink'[i].text # <<>>]_vars

\* The line "File sent successfully!" was given to status_update.
SuccessLineGiven ==
  \E i \in 1..Len(tsink) : tsink[i].kind = "File sent successfully!"

\* C29: in the teardown of a transfer a drain receive that times out, like
\* a leftover message, is dropped: a step of the drain goes on draining or,
\* when the channel reports no more messages, goes to the close, and never
\* returns.  The close is attempted only after the EOF and the drain, and
\* the line "File sent successfully!" is given exactly when the call
\* returns Ok, as the last line.
C29_TransferTeardown ==
  [][/\ tpc = "drain" =>
          /\ tpc' \in {"drain", "close"}
          /\ tret' = Pending
          /\ tchan' = <<"open", "exec", "eof", "drain">>
          /\ UNCHANGED <<tsink, written, total_sent>>
     /\ (tpc # "close" /\ tpc' = "close") => tpc = "drain"
     /\ tpc = "close" =>
          /\ tpc' = "returned"
          /\ tchan' = <<"open", "exec", "eof", "drain", "close">>
     /\ SuccessLineGiven' <=> (tpc' = "returned" /\ tret'.kind = "Ok")
     /\ SuccessLineGiven' =>
          /\ tsink'[Len(tsink')].kind = "File sent successfully!"
          /\ ~SuccessLineGiven
          /\ tpc = "close"
    ]_vars

\* A transfer of 130 bytes returned Ok after EOF, drain and close, with the
\* success line as its last line.
C29_Witness ==
  /\ tpc = "returned"
  /\ tret.kind = "Ok"
  /\ file_size = 130
  /\ tchan = <<"open", "exec", "eof", "drain", "close">>
  /\ SuccessLineGiven

\* The line "command '...' done." was given to status_update.
DoneLineGiven == \E i \in 1..Len(rsink) : rsink[i].kind = "done"

\* What the channel of a call has seen after a complete normal teardown.
FullTeardown == <<"open", "exec", "eof", "drain", "close">>

\* C30: after the channel reported no more messages the call sends EOF,
\* drains, closes, gives the "done" line and resolves its result, in this
\* order.  The "done" line is given exactly when EOF and close succeeded:
\* it is then the last line and the only one of its kind, and the call
\* returns the exit-status error when the status recorded is non-zero and
\* Ok with the output otherwise.  A call that the reboot marker ended early
\* gives no "done" line.
C30_RunTeardown ==
  [][/\ (rpc = "recv" /\ msgs' = msgs /\ rpc' # "returned") =>
          (rpc' = "eof" /\ rchan' = <<"open", "exec">>)
     /\ rpc = "eof" =>
          /\ rchan' = <<"open", "exec", "eof">>
          /\ rpc' \in {"drain", "returned"}
          /\ rsink' = rsink
     /\ rpc = "drain" =>
          /\ rpc' \in {"drain", "close"}
          /\ rret' = Pending
          /\ rsink' = rsink
          /\ rchan' = <<"open", "exec", "eof", "drain">>
     /\ rpc = "close" =>
          /\ rpc' = "returned"
          /\ rchan' = FullTeardown
     /\ DoneLineGiven' <=>
          /\ rpc' = "returned"
          /\ rchan' = FullTeardown
          /\ rret'.why \notin {"close", "close timeout"}
     /\ DoneLineGiven' =>
          /\ rsink'[Len(rsink')].kind = "done"
          /\ \A i \in 1..(Len(rsink') - 1) : rsink'[i].kind # "done"
          /\ rret' = IF result'.some /\ result'.v # 0
                     THEN Err("exit status") ELSE Ok(res')
     /\ rchan' = <<"open", "exec", "close">> => ~DoneLineGiven'
    ]_vars

\* A call went through EOF, drain and close, gave the "done" line and then
\* returned the exit-status error.
C30_Witness ==
  /\ rpc = "returned"
  /\ rchan = FullTeardown
  /\ DoneLineGiven
  /\ rret = Err("exit status")
  /\ result = Some(1)

(***************************************************************************)
(* Properties of is_auth_error's walk along the causes (SpecOp).           *)
(***************************************************************************)
\* The error with its chain of causes cut after the first n of them.
CutChain(e, n) ==
  Error(e.msg, IF Len(e.chain) > n THEN SubSeq(e.chain, 1, n) ELSE e.chain)

\* C31 as stated: is_auth_error looks at no more than a small fixed number
\* of causes (the six that connect follows): what comes of a failed connect
\* is what comes of the same error with the causes beyond the sixth left
\* out.
C31_AsStated ==
  (opc = "returned" /\ oret.kind = "Err" /\ session = "none" /\ attempts # <<>>) =>
    oret.variant = Classify(CutChain(oret.err, LoggedCauses)).variant

(***************************************************************************)
(* Properties of the front end's handling of failures (SpecUI).            *)
(***************************************************************************)
\* A task ends in this step and its operation did not return an
\* authentication failure of connect: it succeeded, or it failed with an
\* error that other_err! wrapped or that try_connect classified as Other.
NoAuthFailureStep ==
  /\ Len(tasks') < Len(tasks)
  /\ finished'.ret.variant # "AuthFailure"

\* C32 as stated: the remembered credential is cleared, and an
\* authentication failure reported, only when connect failed as an
\* authentication failure; a step that failed once the session was
\* established leaves the credential as it is, whatever its error says.
C32_AsStated ==
  [][NoAuthFailureStep =>
       /\ password' = password
       /\ display' \notin
            {"Authentication failed. Please enter password when prompted.",
             "Authentication failed. Please set password in a regular operation first."}
    ]_vars

(***************************************************************************)
(* Properties of the messages a transfer receives (SpecTransfer).          *)
(***************************************************************************)
\* A Data message whose first byte is 1 or 2: the receiver refuses.
Refusal(ev) == ev.kind = "Data" /\ ev.data # <<>> /\ ev.data[1] \in {1, 2}

\* The transfer received a refusal before the channel was closed, in a wait
\* for an acknowledgment or in the drain.
RefusalDelivered ==
  \/ \E i \in 1..Len(acks) : Refusal(acks[i])
  \/ \E i \in 1..Len(drained) : Refusal(drained[i])

\* The Data messages delivered to the transfer: the receiver's answers.
DataDelivered ==
  Cardinality({i \in 1..Len(acks) : acks[i].kind = "Data"}) + Len(drained)

\* C33 as stated: transfer_file returns success only if no refusal was
\* delivered before the channel closed, also when an out-of-band message
\* came before an acknowledgment.  Stated for a receiver that answers each
\* of the three steps of the protocol with one Data message and no more.
C33_AsStated ==
  (tpc = "returned" /\ tret.kind = "Ok" /\ DataDelivered <= 3) => ~RefusalDelivered

(***************************************************************************)
(* Termination of transfer_file's teardown (SpecTransferLive).             *)
(***************************************************************************)
\* The call is in its drain loop and the latest wait of the loop timed out:
\* the remote end has sent nothing and has not closed the channel.
SilentDrain == tpc = "drain" /\ silence # 0

\* C34 as stated: transfer_file does not stay in the drain for ever while
\* the remote end sends nothing and does not close the channel: again and
\* again it is out of the drain, or a wait of the drain received something.
C34_AsStated == []<>(~SilentDrain)

(***************************************************************************)
(* Properties of the tasks in flight (SpecUI).                             *)
(***************************************************************************)
\* The tasks that have read the address and the password and are inside
\* their operation.
InOperation == {i \in 1..Len(tasks) : tasks[i].stage = "running"}

\* C35 as stated: across all controls, no two operation tasks are inside
\* their operations at the same time.
C35_AsStated == Cardinality(InOperation) <= 1

\* A task ends in this step and the password that was remembered is
\* cleared.
PasswordClearedStep ==
  /\ Len(tasks') < Len(tasks)
  /\ password.some
  /\ password' = NoPassword

\* C36 as stated: a password supplied to a prompt is cleared only by an
\* operation that authenticated with it: the task that ends and clears the
\* remembered password read that password when it started, not an older one
\* and not none.
C36_AsStated ==
  [][PasswordClearedStep =>
       \A i \in 1..Len(tasks) :
         tasks' = RemoveAt(tasks, i) => tasks[i].password = password
    ]_vars

(***************************************************************************)
(* Properties of run_command's undecoded remainder (SpecRun).              *)
(***************************************************************************)
\* The bytes are the beginning of one multi-byte character whose rest has
\* not arrived yet.
IncompleteCharacter(b) ==
  /\ b # <<>>
  /\ Len(b) <= 3
  /\ Utf8Step(b, 1).incomplete

\* C37 as stated: between two messages the undecoded remainder is empty or
\* the beginning of one multi-byte character, three bytes at most; a byte
\* that can never become text is not kept in front of the bytes that follow.
C37_AsStated ==
  rpc = "recv" => (buf = <<>> \/ IncompleteCharacter(buf))

(***************************************************************************)
(* Properties of the marker test under fragmentation (SpecRun).            *)
(***************************************************************************)
\* The bytes of the Data messages received, taken together, are valid text
\* with "Unconditional reboot" in it.
MarkerInStream ==
  /\ from_utf8(DataBytes(msgs)).ok
  /\ Contains(from_utf8(DataBytes(msgs)).text, Marker)

\* The receive loop ended because the channel reported no further message,
\* not on the marker.
LoopRanOut == rpc \in {"eof", "drain", "close"}

\* C38 as stated: whenever the Data stream of a command, taken together,
\* holds a line with the marker, the call ends early on it, however the
\* stream was cut into messages: the receive loop never runs out with the
\* marker in the stream.
C38_AsStated == LoopRanOut => ~MarkerInStream

(***************************************************************************)
(* Properties of the event loop (SpecUI).                                  *)
(***************************************************************************)
\* C39 as stated: handling a message never ends the loop of run(): a loop
\* that is running is still running after every step, also after an
\* ExecuteManualCommand message that is rejected.
C39_AsStated == [][running => running']_vars

(***************************************************************************)
(* What a task that ends writes to the State (SpecUI).                     *)
(***************************************************************************)
\* A task ends in this step.
TaskEndsStep == Len(tasks') < Len(tasks)

\* C40: a task whose operation succeeded leaves the remembered credential
\* as it is (no password is stored on success, the default included), and
\* the stored SOC is written by the successful identify-SOC task alone, with
\* what the operation returned: a flash, reset or manual-command task, a
\* task whose operation failed, and every step that is not the end of a
\* task leave it as it is.
C40_SuccessWritesSocOnly ==
  [][/\ (TaskEndsStep /\ finished'.ret.kind = "Ok") => password' = password
     /\ (TaskEndsStep /\ finished'.ret.kind = "Ok" /\ finished'.op = "detect_soc")
          => soc' = finished'.ret.value
     /\ ~(TaskEndsStep /\ finished'.ret.kind = "Ok" /\ finished'.op = "detect_soc")
          => soc' = soc
    ]_vars

\* A flash succeeded after the user had supplied a password and the SOC had
\* been identified: the password is still remembered and the SOC is the one
\* identified.
C40_Witness ==
  /\ finished.op = "flash"
  /\ finished.ret.kind = "Ok"
  /\ password = Pw("p1")
  /\ soc = <<115>>

=============================================================================
